---- MODULE Spec2Model ----
(***************************************************************************)
(* Ticket store (SheetsService), ticket domain service (TicketService) and *)
(* the interactive handlers of app.py, as a state machine over the rows of *)
(* the ticket sheet.                                                       *)
(*                                                                         *)
(* A sheet row is a record of the columns the code reads or writes:        *)
(*   A ticket_id, C requester, D status, E priority, F assignee,           *)
(*   G created_at, H first_response, I resolved_at, J message,             *)
(*   K channel_id, M custom (the JSON object), N internal_message_ts.      *)
(* Columns B (thread link) and L (channel name) are written once by        *)
(* append_ticket and never again; they are left out.                       *)
(* Cells are strings.  A timestamp is one of the strings of TimeStr, the   *)
(* empty cell is "".  The first-response cell is a tuple (empty: << >>).   *)
(* The custom-fields cell is a map over CustomKeys whose absent keys carry *)
(* Absent; the all-absent map is the empty cell ('' <-> {}).               *)
(***************************************************************************)
EXTENDS Integers, Sequences, FiniteSets, TLC

VARIABLES rows, service, next_ticket_id, steps, last, allocated, store0, calls, instances

vars == <<rows, service, next_ticket_id, steps, last, allocated, store0, calls, instances>>

(* ---------------------------- bounds ---------------------------------- *)

\* operations (requests) handled in one run
MaxSteps == 2

\* requests handled in one run of the interactive handlers
MaxRequests == 1

\* calls in flight at the same time in one run
MaxCalls == 2

(* ---------------------------- value tables ---------------------------- *)

\* str(n) for the ticket ids the model can allocate; int() is its inverse
IdStr == <<"1", "2", "3", "4", "5", "6", "7", "8", "9", "10", "11", "12", "13", "14">>

\* datetime.now().strftime('%Y-%m-%d %H:%M:%S') at second n
TimeStr == <<"t1", "t2", "t3", "t4", "t5", "t6", "t7", "t8">>

Absent == "<absent>"

UserIds == {"U1", "U2", "U3"}

\* users_info(user=uid)["user"]["real_name"], prefixed with "@"
AtName(uid) ==
    CASE uid = "U1" -> "@Alice"
      [] uid = "U2" -> "@Bob"
      [] uid = "U3" -> "@Carol"
      [] OTHER -> "@Unknown"

Channels == {"C1", "C2"}

CustomKeys == {"requester_id", "assignee_id", "env"}

NoCustom == [k \in CustomKeys |-> Absent]

\* str.isdigit() on a ticket id cell
IsDigit(s) == \E n \in 1..Len(IdStr) : IdStr[n] = s

\* int(s) for a cell with IsDigit(s)
ToInt(s) == CHOOSE n \in 1..Len(IdStr) : IdStr[n] = s

\* str(n)
ToStr(n) == IdStr[n]

\* str.startswith('U'): of the strings of the model exactly the user ids do
StartsWithU(s) == s \in UserIds

\* the wall clock read by the request being handled: requests arrive at least a
\* second apart, the k-th request of a run at TimeStr[k + 1] (the seeded rows of
\* the initial sheets were written at TimeStr[1])
Now == TimeStr[steps + 2]

SetMax(S) == CHOOSE m \in S : \A x \in S : x <= m

(* ---------------------------- configuration --------------------------- *)

\* str.strip() on the pieces of a comma-separated cell
Strip(piece) ==
    CASE piece = "U2 " -> "U2"
      [] piece = " U2" -> "U2"
      [] piece = " " -> ""
      [] OTHER -> piece

\* [u.strip() for u in csv.split(',') if u.strip()]; a cell is the tuple of the
\* pieces split(',') cuts it into, the empty cell '' is <<"">>
ParseIds(csv) == {Strip(csv[i]) : i \in 1..Len(csv)} \ {""}

\* the truth value of a cell: '' is false, every other string is true
NonEmptyCell(csv) == csv # <<"">>

\* The 'Config' tab as get_channel_config_map returns it: C1 has its own admin
\* list "U2 ," (admin U2), default assignee Bob and the internal channel CI; C3
\* has a row with an empty admin cell and no internal channel; C2 has no row.
ConfigMap ==
    [c \in {"C1", "C3"} |->
        IF c = "C1"
        THEN [admin_user_ids |-> <<"U2 ", "">>, default_assignee |-> "Bob",
              modal_template_key |-> "tech_default", internal_channel_id |-> "CI"]
        ELSE [admin_user_ids |-> <<"">>, default_assignee |-> "",
              modal_template_key |-> "tech_default", internal_channel_id |-> ""]]

\* get_channel_config_map answering a failed read with the rows it read before
GetChannelConfigMapCached(config_ok) == ConfigMap

\* get_channel_config_map: the Config tab, or {} when reading it raised
GetChannelConfigMap(config_ok) == IF config_ok THEN ConfigMap ELSE << >>

\* cfg_map.get(channel_id, {}).get('internal_channel_id', '').strip()
InternalChannelId(cfg_map, channel_id) ==
    IF channel_id \in DOMAIN cfg_map THEN cfg_map[channel_id].internal_channel_id ELSE ""

\* os.environ ADMIN_USER_IDS
GlobalAdminsCsv == <<"U3">>

GlobalAdmins == ParseIds(GlobalAdminsCsv)

DefaultAssignee(channel_id) ==
    IF channel_id \in DOMAIN ConfigMap /\ ConfigMap[channel_id].default_assignee # ""
    THEN "@Bob"
    ELSE ""

\* the admin list taken from the union of the channel's list and the global one
AdminIdsOfUnion(cfg_map, channel_id) ==
    IF channel_id \in DOMAIN cfg_map /\ NonEmptyCell(cfg_map[channel_id].admin_user_ids)
    THEN ParseIds(cfg_map[channel_id].admin_user_ids) \cup ParseIds(GlobalAdminsCsv)
    ELSE ParseIds(GlobalAdminsCsv)

\* the admin list of the handlers and of _is_channel_admin: the channel's own
\* list when its Config row has a non-empty admin cell, else the global list
AdminIdsOf(cfg_map, channel_id) ==
    IF channel_id \in DOMAIN cfg_map /\ NonEmptyCell(cfg_map[channel_id].admin_user_ids)
    THEN ParseIds(cfg_map[channel_id].admin_user_ids)
    ELSE ParseIds(GlobalAdminsCsv)

\* the admin list when the Config tab is read
AdminIds(channel_id) == AdminIdsOf(ConfigMap, channel_id)

(* ---------------------------- the record store ------------------------ *)

\* the row append_ticket builds
NewRow(ticket_id, requester_name, priority, description, channel_id, now) ==
    [ticket_id |-> ticket_id,
     requester |-> requester_name,
     status |-> "Open",
     priority |-> priority,
     assignee |-> DefaultAssignee(channel_id),
     created_at |-> now,
     first_response |-> << >>,
     resolved_at |-> "",
     message |-> description,
     channel_id |-> channel_id,
     custom |-> NoCustom,
     internal_message_ts |-> ""]

\* indices of the physical rows whose id cell is id
RowsOf(rs, id) == {i \in 1..Len(rs) : rs[i].ticket_id = id}

\* get_tickets: one row of the sheet as a ticket dict
TicketOf(row) ==
    LET cf == row.custom
        creator_id == IF cf["requester_id"] # Absent THEN cf["requester_id"] ELSE row.requester
        col_assignee_id ==
            IF StartsWithU(row.assignee)
            THEN (IF cf["assignee_id"] # Absent THEN cf["assignee_id"] ELSE row.assignee)
            ELSE row.assignee
    IN  [ticket_id |-> row.ticket_id,
         created_by |-> creator_id,
         requester_name |-> row.requester,
         status |-> row.status,
         priority |-> row.priority,
         assignee |-> row.assignee,
         \* **custom_fields is merged last and overrides the computed assignee_id
         assignee_id |-> IF cf["assignee_id"] # Absent THEN cf["assignee_id"] ELSE col_assignee_id,
         created_at |-> row.created_at,
         first_response |-> row.first_response,
         resolved_at |-> row.resolved_at,
         message |-> row.message,
         channel_id |-> row.channel_id,
         internal_message_ts |-> row.internal_message_ts,
         requester_id |-> cf["requester_id"],
         env |-> cf["env"]]

RECURSIVE GetTicketsFirstWinsUpTo(_, _)
\* get_tickets keeping, for an id seen before, the ticket it already holds
GetTicketsFirstWinsUpTo(rs, n) ==
    IF n = 0
    THEN << >>
    ELSE LET prev == GetTicketsFirstWinsUpTo(rs, n - 1)
             ticket == TicketOf(rs[n])
         IN  IF rs[n].ticket_id = ""
             THEN prev
             ELSE IF \E k \in 1..Len(prev) : prev[k].ticket_id = ticket.ticket_id
             THEN prev
             ELSE Append(prev, ticket)

RECURSIVE GetTicketsUpTo(_, _)
\* get_tickets after the first n rows: ticket_dict[ticket_id] = ticket for each
\* row in turn; the dict keeps the position of a key's first insertion and the
\* value of its last assignment
GetTicketsUpTo(rs, n) ==
    IF n = 0
    THEN << >>
    ELSE LET prev == GetTicketsUpTo(rs, n - 1)
             ticket == TicketOf(rs[n])
         IN  IF rs[n].ticket_id = ""
             THEN prev
             ELSE IF \E k \in 1..Len(prev) : prev[k].ticket_id = ticket.ticket_id
             THEN [k \in 1..Len(prev) |->
                      IF prev[k].ticket_id = ticket.ticket_id THEN ticket ELSE prev[k]]
             ELSE Append(prev, ticket)

\* SheetsService.get_tickets: list(ticket_dict.values())
GetTickets(rs) == GetTicketsUpTo(rs, Len(rs))

\* ids of the tickets get_tickets returns (rows with an empty id cell are skipped)
TicketIds(rs) == {rs[i].ticket_id : i \in 1..Len(rs)} \ {""}

\* get_tickets de-duplicates through a dict: the last row of an id wins
LastRowOf(rs, id) == SetMax(RowsOf(rs, id))

\* TicketService.get_ticket(id) is not None
HasTicket(rs, id) == id \in TicketIds(rs)

\* TicketService.get_ticket(id), for HasTicket(rs, id)
GetTicket(rs, id) == TicketOf(rs[LastRowOf(rs, id)])

\* the row an update operation addresses: the first row whose id matches, 0 if none
FindRow(rs, id) ==
    IF RowsOf(rs, id) = {} THEN 0
    ELSE CHOOSE i \in RowsOf(rs, id) : \A j \in RowsOf(rs, id) : i <= j

Result(rs, ok, writes) == [rows |-> rs, ok |-> ok, writes |-> writes]

\* append_ticket without the look-up of the id among the existing tickets
AppendTicketNoDupCheck(rs, ticket_data, now, api_ok) ==
    IF ~api_ok
    THEN Result(rs, FALSE, 1)
    ELSE Result(Append(rs, NewRow(ticket_data.ticket_id, ticket_data.requester_name,
                                  ticket_data.priority, ticket_data.description,
                                  ticket_data.channel_id, now)),
                TRUE, 1)

\* SheetsService.append_ticket; api_ok is whether the append call goes through
AppendTicket(rs, ticket_data, now, api_ok) ==
    IF HasTicket(rs, ticket_data.ticket_id)
    THEN Result(rs, FALSE, 0)
    ELSE IF ~api_ok
    THEN Result(rs, FALSE, 1)
    ELSE Result(Append(rs, NewRow(ticket_data.ticket_id, ticket_data.requester_name,
                                  ticket_data.priority, ticket_data.description,
                                  ticket_data.channel_id, now)),
                TRUE, 1)

\* update_ticket_status taking the caller's resolved_at on a reopen (the old
\* timestamp TicketService passes along) instead of clearing the cell
SheetsUpdateTicketStatusKeepsResolved(rs, ticket_id, new_status, now) ==
    IF new_status \notin {"Open", "Closed"}
    THEN Result(rs, FALSE, 0)
    ELSE LET i == FindRow(rs, ticket_id) IN
         IF i = 0
         THEN Result(rs, FALSE, 0)
         ELSE LET resolved_at == IF new_status = "Closed" THEN now ELSE rs[i].resolved_at
                  rs2 == [rs EXCEPT ![i].status = new_status,
                                    ![i].resolved_at = resolved_at]
              IN  Result(rs2, rs2[i].status = new_status, 2)

\* update_ticket_status writing the row range D:I in one call, which blanks the
\* cells between status and resolved_at
SheetsUpdateTicketStatusWholeRange(rs, ticket_id, new_status, now) ==
    IF new_status \notin {"Open", "Closed"}
    THEN Result(rs, FALSE, 0)
    ELSE LET i == FindRow(rs, ticket_id) IN
         IF i = 0
         THEN Result(rs, FALSE, 0)
         ELSE LET resolved_at == IF new_status = "Closed" THEN now ELSE ""
                  rs2 == [rs EXCEPT ![i].status = new_status,
                                    ![i].priority = "",
                                    ![i].assignee = "",
                                    ![i].created_at = "",
                                    ![i].first_response = << >>,
                                    ![i].resolved_at = resolved_at]
              IN  Result(rs2, rs2[i].status = new_status, 1)

\* SheetsService.update_ticket_status
SheetsUpdateTicketStatus(rs, ticket_id, new_status, now) ==
    IF new_status \notin {"Open", "Closed"}
    THEN Result(rs, FALSE, 0)
    ELSE LET i == FindRow(rs, ticket_id) IN
         IF i = 0
         THEN Result(rs, FALSE, 0)
         ELSE LET resolved_at == IF new_status = "Closed" THEN now ELSE ""
                  rs2 == [rs EXCEPT ![i].status = new_status,
                                    ![i].resolved_at = resolved_at]
              IN  Result(rs2, rs2[i].status = new_status, 2)


\* str.upper() on the priority strings of the model
Upper(p) ==
    CASE p \in {"High", "high", "HIGH"} -> "HIGH"
      [] p \in {"Medium", "medium", "MEDIUM"} -> "MEDIUM"
      [] p \in {"Low", "low", "LOW"} -> "LOW"
      [] p \in {"Critical", "critical", "CRITICAL"} -> "CRITICAL"
      [] p \in {"Urgent", "URGENT"} -> "URGENT"
      [] OTHER -> p

\* update_ticket_assignee storing {assignee_id: user_id} as the whole
\* custom-fields object instead of adding the key to the stored one
SheetsUpdateTicketAssigneeReplace(rs, ticket_id, assignee_id, user_id) ==
    LET i == FindRow(rs, ticket_id) IN
    IF i = 0
    THEN Result(rs, FALSE, 0)
    ELSE LET rs1 == [rs EXCEPT ![i].assignee = assignee_id]
             rs2 == IF user_id # ""
                    THEN [rs1 EXCEPT ![i].custom =
                              [NoCustom EXCEPT !["assignee_id"] = user_id]]
                    ELSE rs1
         IN  Result(rs2, rs2[i].assignee = assignee_id, IF user_id # "" THEN 2 ELSE 1)

\* SheetsService.update_ticket_assignee; user_id "" is the absent user_id
SheetsUpdateTicketAssignee(rs, ticket_id, assignee_id, user_id) ==
    LET i == FindRow(rs, ticket_id) IN
    IF i = 0
    THEN Result(rs, FALSE, 0)
    ELSE LET current_row == rs[i]
             rs1 == [rs EXCEPT ![i].assignee = assignee_id]
             rs2 == IF user_id # ""
                    THEN [rs1 EXCEPT ![i].custom =
                              [current_row.custom EXCEPT !["assignee_id"] = user_id]]
                    ELSE rs1
         IN  Result(rs2, rs2[i].assignee = assignee_id, IF user_id # "" THEN 2 ELSE 1)

\* SheetsService.update_ticket_priority
SheetsUpdateTicketPriority(rs, ticket_id, priority) ==
    IF Upper(priority) \notin {"CRITICAL", "HIGH", "MEDIUM", "LOW"}
    THEN Result(rs, FALSE, 0)
    ELSE LET i == FindRow(rs, ticket_id) IN
         IF i = 0
         THEN Result(rs, FALSE, 0)
         ELSE LET rs2 == [rs EXCEPT ![i].priority = Upper(priority)]
              IN  Result(rs2, rs2[i].priority = Upper(priority), 1)

\* SheetsService.update_ticket_first_response
SheetsUpdateTicketFirstResponse(rs, ticket_id, response_text, responder_id, now) ==
    LET i == FindRow(rs, ticket_id) IN
    IF i = 0
    THEN Result(rs, FALSE, 0)
    ELSE LET rs2 == [rs EXCEPT ![i].first_response = <<now, responder_id, response_text>>]
         IN  Result(rs2, rs2[i].first_response[1] = now, 1)

\* update_ticket_from_modal merging custom_fields into the stored object, the
\* way update_ticket_assignee does, instead of replacing it
SheetsUpdateTicketFromModalMerge(rs, ticket_id, requester, status, assignee, priority, description, custom_fields, now) ==
    LET i == FindRow(rs, ticket_id) IN
    IF i = 0
    THEN Result(rs, FALSE, 0)
    ELSE LET rs1 == [rs EXCEPT ![i].requester = requester,
                               ![i].status = status,
                               ![i].priority = priority,
                               ![i].assignee = assignee,
                               ![i].created_at = now]
             rs2 == IF status = "Closed"
                    THEN [rs1 EXCEPT ![i].resolved_at = now]
                    ELSE rs1
             rs3 == [rs2 EXCEPT ![i].message = description]
             rs4 == IF custom_fields # << >>
                    THEN [rs3 EXCEPT ![i].custom =
                             [k \in CustomKeys |->
                                 IF custom_fields[1][k] # Absent
                                 THEN custom_fields[1][k]
                                 ELSE rs[i].custom[k]]]
                    ELSE rs3
         IN  Result(rs4, TRUE,
                    6 + (IF status = "Closed" THEN 1 ELSE 0)
                      + (IF custom_fields # << >> THEN 1 ELSE 0))

\* SheetsService.update_ticket_from_modal; custom_fields is << >> for None and
\* <<map>> for a dict (the all-absent map is the empty dict, written as '')
SheetsUpdateTicketFromModal(rs, ticket_id, requester, status, assignee, priority, description, custom_fields, now) ==
    LET i == FindRow(rs, ticket_id) IN
    IF i = 0
    THEN Result(rs, FALSE, 0)
    ELSE LET rs1 == [rs EXCEPT ![i].requester = requester,
                               ![i].status = status,
                               ![i].priority = priority,
                               ![i].assignee = assignee,
                               ![i].created_at = now]
             rs2 == IF status = "Closed"
                    THEN [rs1 EXCEPT ![i].resolved_at = now]
                    ELSE rs1
             rs3 == [rs2 EXCEPT ![i].message = description]
             rs4 == IF custom_fields # << >>
                    THEN [rs3 EXCEPT ![i].custom = custom_fields[1]]
                    ELSE rs3
         IN  Result(rs4, TRUE,
                    6 + (IF status = "Closed" THEN 1 ELSE 0)
                      + (IF custom_fields # << >> THEN 1 ELSE 0))

\* SheetsService.update_internal_message_ts
SheetsUpdateInternalMessageTs(rs, ticket_id, internal_message_ts) ==
    LET i == FindRow(rs, ticket_id) IN
    IF i = 0
    THEN Result(rs, FALSE, 0)
    ELSE Result([rs EXCEPT ![i].internal_message_ts = internal_message_ts], TRUE, 1)

(* ---------------------------- the domain service ---------------------- *)

\* TicketService._get_next_ticket_id; 0 stands for the ValueError that max()
\* raises on an empty sequence
GetNextTicketId(rs) ==
    IF TicketIds(rs) = {}
    THEN 1
    ELSE LET nums == {ToInt(id) : id \in {x \in TicketIds(rs) : IsDigit(x)}} IN
         IF nums = {} THEN 0 ELSE SetMax(nums) + 1

\* update_ticket_status with neither the existence check nor the status
\* validation of either layer, the row index defaulting to the first data row
UpdateStatusResultNoChecks(rs, ticket_id, new_status, now) ==
    IF Len(rs) = 0
    THEN Result(rs, FALSE, 0)
    ELSE LET i == IF FindRow(rs, ticket_id) = 0 THEN 1 ELSE FindRow(rs, ticket_id)
             resolved_at == IF new_status = "Closed" THEN now ELSE ""
             rs2 == [rs EXCEPT ![i].status = new_status,
                               ![i].resolved_at = resolved_at]
         IN  Result(rs2, rs2[i].status = new_status, 2)

\* TicketService.update_ticket_status
UpdateStatusResult(rs, ticket_id, new_status, now) ==
    IF ~HasTicket(rs, ticket_id)
    THEN Result(rs, FALSE, 0)
    ELSE IF new_status \notin {"Open", "Closed"}
    THEN Result(rs, FALSE, 0)
    ELSE SheetsUpdateTicketStatus(rs, ticket_id, new_status, now)


\* TicketService.update_ticket_assignee (passes no user_id)
UpdateAssigneeResult(rs, ticket_id, assignee_id) ==
    IF ~HasTicket(rs, ticket_id)
    THEN Result(rs, FALSE, 0)
    ELSE SheetsUpdateTicketAssignee(rs, ticket_id, assignee_id, "")

\* TicketService.update_ticket_priority
UpdatePriorityResult(rs, ticket_id, priority) ==
    IF ~HasTicket(rs, ticket_id)
    THEN Result(rs, FALSE, 0)
    ELSE IF priority \notin {"Low", "Medium", "High", "Urgent"}
    THEN Result(rs, FALSE, 0)
    ELSE SheetsUpdateTicketPriority(rs, ticket_id, priority)

\* TicketService.update_ticket_first_response
UpdateFirstResponseResult(rs, ticket_id, response_text, responder_id, now) ==
    IF ~HasTicket(rs, ticket_id)
    THEN Result(rs, FALSE, 0)
    ELSE SheetsUpdateTicketFirstResponse(rs, ticket_id, response_text, responder_id, now)

\* TicketService.update_ticket_from_modal
UpdateFromModalResult(rs, ticket_id, requester, status, assignee, priority, description, custom_fields, now) ==
    IF ~HasTicket(rs, ticket_id)
    THEN Result(rs, FALSE, 0)
    ELSE SheetsUpdateTicketFromModal(rs, ticket_id, requester, status, assignee,
                                     priority, description, custom_fields, now)


(* ---------------------------- the handlers of app.py ------------------ *)

\* is_creator = (user_id == ticket.get('created_by', '')) of the view and
\* modal-submission handlers
IsCreator(user_id, ticket) == user_id = ticket.created_by

\* get_modal_template: the field ids of a template of the 'Modal Templates'
\* tab, in their order
ModalTemplates ==
    [template_key \in {"tech_default", "note", "triage"} |->
        CASE template_key = "tech_default" ->
                 <<"requester", "status", "assignee", "priority", "description", "env">>
          [] template_key = "note" -> <<"description">>
          [] OTHER -> <<"priority">>]

\* handle_modal_submission_direct: the field id the "errors" object of the
\* response is keyed to, "" when the response carries no errors
ModalSubmissionErrors(cfg_map, rs, user_id, ticket_id, sub) ==
    IF ~HasTicket(rs, ticket_id)
    THEN "description"
    ELSE LET ticket == GetTicket(rs, ticket_id)
             is_admin == user_id \in AdminIdsOf(cfg_map, ticket.channel_id)
             is_creator == IsCreator(user_id, ticket)
         IN  IF ~is_admin /\ ~is_creator THEN "description" ELSE ""

\* handle_modal_submission_direct taking the submitted status for every
\* submitter, the creator included
ModalSubmissionResultSubmittedStatus(cfg_map, rs, user_id, ticket_id, sub, now) ==
    IF ~HasTicket(rs, ticket_id)
    THEN Result(rs, FALSE, 0)
    ELSE LET ticket == GetTicket(rs, ticket_id)
             is_admin == user_id \in AdminIdsOf(cfg_map, ticket.channel_id)
             is_creator == IsCreator(user_id, ticket)
             requester_id == IF sub.requester = Absent THEN "" ELSE sub.requester
             assignee_id == IF sub.assignee = Absent THEN "" ELSE sub.assignee
             requester == IF requester_id # "" THEN AtName(requester_id) ELSE ""
             assignee == IF assignee_id # "" THEN AtName(assignee_id) ELSE ""
             status == IF sub.status # Absent THEN sub.status ELSE ticket.status
             priority == IF sub.priority # Absent THEN sub.priority ELSE "MEDIUM"
             description == IF sub.description # Absent THEN sub.description ELSE ""
             custom_data ==
                 [k \in CustomKeys |->
                     CASE k = "requester_id" ->
                              IF requester_id # "" THEN requester_id ELSE Absent
                       [] k = "assignee_id" ->
                              IF assignee_id # "" THEN assignee_id ELSE Absent
                       [] OTHER -> sub.env]
         IN  IF ~is_admin /\ ~is_creator
             THEN Result(rs, FALSE, 0)
             ELSE UpdateFromModalResult(rs, ticket_id, requester, status, assignee,
                                        priority, description, <<custom_data>>, now)

\* handle_modal_submission_direct; sub holds the values extract_modal_values
\* returns (Absent: the field is not in the submission).  channel_id comes from
\* the modal's private_metadata, which the view handler fills with the ticket's
\* channel.
ModalSubmissionResult(cfg_map, rs, user_id, ticket_id, sub, now) ==
    IF ~HasTicket(rs, ticket_id)
    THEN Result(rs, FALSE, 0)
    ELSE LET ticket == GetTicket(rs, ticket_id)
             is_admin == user_id \in AdminIdsOf(cfg_map, ticket.channel_id)
             is_creator == IsCreator(user_id, ticket)
             requester_id == IF sub.requester = Absent THEN "" ELSE sub.requester
             assignee_id == IF sub.assignee = Absent THEN "" ELSE sub.assignee
             requester == IF requester_id # "" THEN AtName(requester_id) ELSE ""
             assignee == IF assignee_id # "" THEN AtName(assignee_id) ELSE ""
             status == IF is_creator /\ ~is_admin
                       THEN ticket.status
                       ELSE IF sub.status # Absent THEN sub.status ELSE ticket.status
             priority == IF sub.priority # Absent THEN sub.priority ELSE "MEDIUM"
             description == IF sub.description # Absent THEN sub.description ELSE ""
             custom_data ==
                 [k \in CustomKeys |->
                     CASE k = "requester_id" ->
                              IF requester_id # "" THEN requester_id ELSE Absent
                       [] k = "assignee_id" ->
                              IF assignee_id # "" THEN assignee_id ELSE Absent
                       [] OTHER -> sub.env]
         IN  IF ~is_admin /\ ~is_creator
             THEN Result(rs, FALSE, 0)
             ELSE UpdateFromModalResult(rs, ticket_id, requester, status, assignee,
                                        priority, description, <<custom_data>>, now)

\* handle_internal_change_status_direct: the toggle button of the internal card
InternalChangeStatusResult(rs, ticket_id, now) ==
    IF ~HasTicket(rs, ticket_id)
    THEN Result(rs, FALSE, 0)
    ELSE LET current_status == GetTicket(rs, ticket_id).status
             new_status == IF current_status = "Open" THEN "Closed" ELSE "Open"
         IN  UpdateStatusResult(rs, ticket_id, new_status, now)

\* handle_close_ticket_direct: the Close button of the origin thread
CloseTicketResult(cfg_map, rs, user_id, channel_id, ticket_id, now) ==
    IF user_id \notin AdminIdsOf(cfg_map, channel_id)
    THEN Result(rs, FALSE, 0)
    ELSE UpdateStatusResult(rs, ticket_id, "Closed", now)

\* handle_internal_assign_me_direct
InternalAssignMeResult(rs, user_id, ticket_id) ==
    SheetsUpdateTicketAssignee(rs, ticket_id, AtName(user_id), user_id)

\* the thread-reply branch recording every reply as the first response
ThreadReplyResultAlways(rs, ticket_id, response_text, responder_id, now) ==
    IF ~HasTicket(rs, ticket_id)
    THEN Result(rs, FALSE, 0)
    ELSE UpdateFirstResponseResult(rs, ticket_id, response_text, responder_id, now)

\* handle_message_events, thread-reply branch: the reply is recorded as the
\* first response only when the ticket of the thread has none yet
ThreadReplyResult(rs, ticket_id, response_text, responder_id, now) ==
    IF ~HasTicket(rs, ticket_id)
    THEN Result(rs, FALSE, 0)
    ELSE IF GetTicket(rs, ticket_id).first_response = << >>
    THEN UpdateFirstResponseResult(rs, ticket_id, response_text, responder_id, now)
    ELSE Result(rs, FALSE, 0)

(* ---------------------------- views and Slack calls ------------------ *)

\* what a request sent to Slack: the modal opened (view: "" none, else the kind
\* of form; submit: it has a submit control; blocks: its blocks), the chat_update
\* issued to the internal card (card: empty or the one update, with the ticket
\* it was rendered from), the new top-level posts to the internal channel
\* (card_posts), and the chat_postMessage calls to the origin thread
\* (origin_notes) and to the card's reply thread (card_notes), and the thread
\* replies forwarded between the origin thread and the card's thread
\* (forwards), and the error messages sent to the thread (error_notes), and
\* the "Ticket #<id> has been created" messages with their buttons posted to
\* the thread (confirmations) with the id formatted into them (confirmed_id:
\* "None" for the None create_ticket returns on failure)
NoFx ==
    [view |-> "", submit |-> FALSE, blocks |-> << >>, card |-> << >>,
     card_posts |-> 0, origin_notes |-> 0, card_notes |-> 0, forwards |-> 0,
     error_notes |-> 0, confirmations |-> 0, confirmed_id |-> ""]

\* cfg_map.get(channel_id, {}).get('modal_template_key', 'tech_default')
TemplateKeyOf(cfg_map, channel_id) ==
    IF channel_id \in DOMAIN cfg_map THEN cfg_map[channel_id].modal_template_key ELSE "tech_default"

\* build_modal_blocks that renders the status input whatever lock_status is
BuildModalBlocksNoLock(fields, lock_status) ==
    [i \in 1..Len(fields) |-> [type |-> "input", block_id |-> fields[i]]]

\* build_modal_blocks: one input block per field, the status field a section
\* block (display text, no block_id) when lock_status
BuildModalBlocks(fields, lock_status) ==
    [i \in 1..Len(fields) |->
        IF fields[i] = "status" /\ lock_status
        THEN [type |-> "section", block_id |-> ""]
        ELSE [type |-> "input", block_id |-> fields[i]]]

\* build_view_only_blocks: a section block per field, then a divider and a
\* context block
BuildViewOnlyBlocks(fields) ==
    [i \in 1..(Len(fields) + 2) |->
        IF i <= Len(fields) THEN [type |-> "section", block_id |-> ""]
        ELSE IF i = Len(fields) + 1 THEN [type |-> "divider", block_id |-> ""]
        ELSE [type |-> "context", block_id |-> ""]]

\* the keys of view["state"]["values"] of a submission of a modal with these
\* blocks: Slack sends one entry per input block, keyed by its block_id
StateValues(blocks) ==
    {blocks[i].block_id : i \in {j \in 1..Len(blocks) : blocks[j].type = "input"}}

\* extract_modal_values: the keys of the dict it returns
ExtractModalValues(values, fields) ==
    {fields[i] : i \in {j \in 1..Len(fields) : fields[j] \in values}}

\* the modal the direct view handlers open for the permissions computed
ModalFor(is_admin, is_creator, fields) ==
    IF is_admin
    THEN [NoFx EXCEPT !.view = "edit", !.submit = TRUE,
                      !.blocks = BuildModalBlocks(fields, FALSE)]
    ELSE IF is_creator
    THEN [NoFx EXCEPT !.view = "edit_locked", !.submit = TRUE,
                      !.blocks = BuildModalBlocks(fields, TRUE)]
    ELSE [NoFx EXCEPT !.view = "view_only", !.blocks = BuildViewOnlyBlocks(fields)]

\* handle_view_edit_ticket_direct: admin of the payload's channel, template of
\* the ticket's channel
ViewEditTicketFx(cfg_map, rs, user_id, channel_id, ticket_id) ==
    IF ~HasTicket(rs, ticket_id)
    THEN NoFx
    ELSE LET ticket == GetTicket(rs, ticket_id)
             is_admin == user_id \in AdminIdsOf(cfg_map, channel_id)
             is_creator == IsCreator(user_id, ticket)
             fields == ModalTemplates[TemplateKeyOf(cfg_map, ticket.channel_id)]
         IN  ModalFor(is_admin, is_creator, fields)

\* handle_internal_view_edit_direct: admin and template of the ticket's channel
InternalViewEditFx(cfg_map, rs, user_id, ticket_id) ==
    IF ~HasTicket(rs, ticket_id)
    THEN NoFx
    ELSE LET ticket == GetTicket(rs, ticket_id)
             is_admin == user_id \in AdminIdsOf(cfg_map, ticket.channel_id)
             is_creator == IsCreator(user_id, ticket)
             fields == ModalTemplates[TemplateKeyOf(cfg_map, ticket.channel_id)]
         IN  ModalFor(is_admin, is_creator, fields)

\* SlackHandler.handle_view_edit_ticket (the Bolt listener): admins get the
\* editable form, everyone else an ephemeral refusal and no modal
BoltViewEditTicketFx(cfg_map, rs, user_id, channel_id, ticket_id) ==
    IF user_id \notin AdminIdsOf(cfg_map, channel_id)
    THEN NoFx
    ELSE IF ~HasTicket(rs, ticket_id)
    THEN NoFx
    ELSE LET ticket == GetTicket(rs, ticket_id)
             fields == ModalTemplates[TemplateKeyOf(cfg_map, ticket.channel_id)]
         IN  [NoFx EXCEPT !.view = "edit", !.submit = TRUE,
                          !.blocks = BuildModalBlocks(fields, FALSE)]

\* update_internal_channel_message: the chat_update of the card at message_ts,
\* formatted from the ticket passed in; nothing is sent without a channel or ts
CardUpdate(internal_channel_id, message_ts, ticket) ==
    IF internal_channel_id = "" \/ message_ts = ""
    THEN << >>
    ELSE << [channel |-> internal_channel_id, ts |-> message_ts, ticket |-> ticket] >>

\* handle_close_ticket_direct after update_ticket_status returned success: the
\* notification to the thread of the button, then the card update when the
\* payload's channel has an internal channel and the re-read ticket a card
CloseTicketFx(cfg_map, rs_after, channel_id, ticket_id, success) ==
    IF ~success
    THEN NoFx
    ELSE LET internal_channel_id == InternalChannelId(cfg_map, channel_id) IN
         [NoFx EXCEPT
            !.origin_notes = 1,
            !.card = IF internal_channel_id # "" /\ HasTicket(rs_after, ticket_id)
                     THEN CardUpdate(internal_channel_id,
                                     GetTicket(rs_after, ticket_id).internal_message_ts,
                                     GetTicket(rs_after, ticket_id))
                     ELSE << >>]

\* SlackHandler.handle_close_ticket (the Bolt listener) after ack(): one say()
\* to the thread on success and no card update; when that say() raises, or
\* when the update failed, one say() of an error message (its own failure is
\* passed over)
BoltCloseTicketFx(success, slack_ok) ==
    IF success
    THEN [NoFx EXCEPT !.origin_notes = 1, !.error_notes = IF slack_ok THEN 0 ELSE 1]
    ELSE NoFx

\* handle_internal_change_status_direct and handle_internal_assign_me_direct
\* after success: the re-read ticket's card is updated in the channel of the
\* button (the internal channel) and a line posted to its reply thread when the
\* ticket has a card, and a line is posted to the thread of the ticket's link
InternalActionFx(rs_after, internal_channel_id, ticket_id, success) ==
    IF ~success \/ ~HasTicket(rs_after, ticket_id)
    THEN NoFx
    ELSE LET ticket == GetTicket(rs_after, ticket_id) IN
         [NoFx EXCEPT
            !.card = CardUpdate(internal_channel_id, ticket.internal_message_ts, ticket),
            !.card_notes = IF ticket.internal_message_ts # "" THEN 1 ELSE 0,
            !.origin_notes = 1]

\* handle_modal_submission_direct after success: no thread message, the card
\* update when the metadata's channel has an internal channel and the re-read
\* ticket a card
ModalSubmissionFx(cfg_map, rs_after, channel_id, ticket_id, success) ==
    IF ~success
    THEN NoFx
    ELSE LET internal_channel_id == InternalChannelId(cfg_map, channel_id) IN
         [NoFx EXCEPT
            !.card = IF internal_channel_id # "" /\ HasTicket(rs_after, ticket_id)
                     THEN CardUpdate(internal_channel_id,
                                     GetTicket(rs_after, ticket_id).internal_message_ts,
                                     GetTicket(rs_after, ticket_id))
                     ELSE << >>]

\* handle_dynamic_modal_submission (the Bolt listener): admins of the
\* metadata's channel only; the submitted status, 'Open' when there is none
BoltModalSubmissionResult(cfg_map, rs, user_id, ticket_id, sub, now) ==
    IF ~HasTicket(rs, ticket_id)
    THEN Result(rs, FALSE, 0)
    ELSE LET ticket == GetTicket(rs, ticket_id)
             requester_id == IF sub.requester = Absent THEN "" ELSE sub.requester
             assignee_id == IF sub.assignee = Absent THEN "" ELSE sub.assignee
             requester == IF requester_id # "" THEN AtName(requester_id) ELSE ""
             assignee == IF assignee_id # "" THEN AtName(assignee_id) ELSE ""
             status == IF sub.status # Absent THEN sub.status ELSE "Open"
             priority == IF sub.priority # Absent THEN sub.priority ELSE "MEDIUM"
             description == IF sub.description # Absent THEN sub.description ELSE ""
             custom_data ==
                 [k \in CustomKeys |->
                     CASE k = "requester_id" ->
                              IF requester_id # "" THEN requester_id ELSE Absent
                       [] k = "assignee_id" ->
                              IF assignee_id # "" THEN assignee_id ELSE Absent
                       [] OTHER -> sub.env]
         IN  IF user_id \notin AdminIdsOf(cfg_map, ticket.channel_id)
             THEN Result(rs, FALSE, 0)
             ELSE UpdateFromModalResult(rs, ticket_id, requester, status, assignee,
                                        priority, description, <<custom_data>>, now)

\* handle_dynamic_modal_submission after success: the update message posted to
\* the thread of the ticket's link, no card update
BoltModalSubmissionFx(success) ==
    IF success THEN [NoFx EXCEPT !.origin_notes = 1] ELSE NoFx

(* ---------------------------- initial stores -------------------------- *)

SeedRow(id, channel_id) == NewRow(id, "@Alice", "Medium", "m1", channel_id, TimeStr[1])

\* sheets the service can be started on: empty, ids 3 and 7, a leftover test row
InitStores ==
    { << >>,
      << SeedRow("3", "C1"), SeedRow("7", "C2") >>,
      << SeedRow("TEST-1", "C1") >> }

\* a sheet with two physical rows of ticket 3: the appends of two service
\* instances that held the same next id
DupStores ==
    { << NewRow("3", "@Alice", "Medium", "m1", "C1", TimeStr[1]),
         NewRow("3", "@Bob", "Medium", "m2", "C1", TimeStr[1]) >> }

\* ids a request can name: tickets of the seeded and of the empty store, and one that never exists
RequestIds == {"1", "3", "7", "999"}

\* ids of the rows appended to the sheet directly, not through create_ticket
AppendIds == {"3", "8"}

StatusInputs == {"Open", "Closed", "Archived"}

PriorityInputs == {"High", "Urgent", "high"}

AssigneeInputs == {"@Carol"}

ModalRequesters == {Absent, "U1", "U2"}

ModalStatuses == {"Open", "Closed", "Archived"}

ModalAssignees == {"U2"}

ModalPriorities == {"high"}

ModalDescriptions == {"m2"}

ModalEnvs == {"prod"}

\* the custom_fields argument of update_ticket_from_modal: None (the default),
\* or a dict with the one key env
FormCustomFields == { << >>, << [NoCustom EXCEPT !["env"] = "prod"] >> }

\* submissions of a template with all core fields and one custom field, of a
\* template that has the description field only, and of one that has the
\* priority field only; template_key is the one of the modal's private_metadata
ModalSubmissions ==
    [requester : ModalRequesters, status : ModalStatuses, assignee : ModalAssignees,
     priority : ModalPriorities, description : ModalDescriptions, env : ModalEnvs,
     template_key : {"tech_default"}]
    \cup
    [requester : {Absent}, status : {Absent}, assignee : {Absent},
     priority : {Absent}, description : ModalDescriptions, env : {Absent},
     template_key : {"note"}]
    \cup
    [requester : {Absent}, status : {Absent}, assignee : {Absent},
     priority : ModalPriorities, description : {Absent}, env : {Absent},
     template_key : {"triage"}]

\* a message event: channel, user ('' when the event has none), text, the
\* thread it replies in ("" for a top-level message, else the id of the ticket of
\* that origin thread, or the ts of a card for a thread of the internal
\* channel), bot_id present, subtype
MessageEventOf(channel, user, text, thread, bot, subtype) ==
    [channel |-> channel, user |-> user, text |-> text, thread |-> thread,
     bot |-> bot, subtype |-> subtype]

NoEvent == MessageEventOf("", "", "", "", FALSE, "")

\* top-level messages of a user in a configured channel, an unconfigured one,
\* the internal channel, a DM and a group DM; a bot's message; an edit; thread
\* replies in an origin thread and under a card; a file share without text
MessageEvents ==
    {MessageEventOf(ch, "U1", "m1", "", FALSE, "") : ch \in {"C1", "C2", "CI", "D1", "G1"}}
    \cup {MessageEventOf("C1", "U1", "m1", "", TRUE, ""),
          MessageEventOf("C1", "U1", "m1", "", FALSE, "message_changed"),
          MessageEventOf("C1", "U3", "looking", "3", FALSE, ""),
          MessageEventOf("CI", "U2", "note", "ts1", FALSE, ""),
          MessageEventOf("C1", "U1", "", "", FALSE, ""),
          MessageEventOf("C1", "", "m1", "", FALSE, "")}

\* str.startswith('D') / str.startswith('G') on a channel id
StartsWithD(channel_id) == channel_id = "D1"

StartsWithG(channel_id) == channel_id = "G1"

\* what can fail while one request is handled: nothing, the read of the Config
\* tab, the chat_postMessage and chat_update calls (the bot is not in the
\* channel, say), or the append to the sheet
Envs ==
    {[config_ok |-> TRUE, slack_ok |-> TRUE, api_ok |-> TRUE],
     [config_ok |-> FALSE, slack_ok |-> TRUE, api_ok |-> TRUE],
     [config_ok |-> TRUE, slack_ok |-> FALSE, api_ok |-> TRUE],
     [config_ok |-> TRUE, slack_ok |-> TRUE, api_ok |-> FALSE]}

\* the ts Slack returns for the card posted to the internal channel
CardTs(ticket_id) == IF ticket_id = "5" THEN "ts2" ELSE "ts1"

\* the form an admin submits to name U1 the requester of ticket 3, and the one
\* naming U3 the requester of ticket 5
RequesterForm(uid) ==
    [requester |-> uid, status |-> "Open", assignee |-> "U2", priority |-> "high",
     description |-> "m2", env |-> "prod", template_key |-> "tech_default"]

\* a sheet of a running service: tickets 3 and 5 of C1 carry their cards, an
\* admin has named U1 the requester of 3 and U3 the requester of 5 through the
\* form and 5 has been closed; ticket 7 of C2 is as created
HandlerStore ==
    LET r0 == << SeedRow("3", "C1"), SeedRow("5", "C1"), SeedRow("7", "C2") >>
        r1 == SheetsUpdateInternalMessageTs(r0, "3", CardTs("3")).rows
        r2 == SheetsUpdateInternalMessageTs(r1, "5", CardTs("5")).rows
        r3 == ModalSubmissionResult(ConfigMap, r2, "U2", "3", RequesterForm("U1"), TimeStr[1]).rows
        r4 == ModalSubmissionResult(ConfigMap, r3, "U2", "5", RequesterForm("U3"), TimeStr[1]).rows
    IN  UpdateStatusResult(r4, "5", "Closed", TimeStr[1]).rows

HandlerStores == { << >>, HandlerStore }

\* ids the buttons and forms of the handlers name
HandlerIds == {"3", "5", "7", "999"}

\* forms submitted to the handlers: all fields, and the description only
HandlerSubmissions ==
    {[requester |-> "U1", status |-> st, assignee |-> "U2", priority |-> "high",
      description |-> "m2", env |-> "prod", template_key |-> "tech_default"] : st \in {"Open", "Closed"}}
    \cup
    {[requester |-> Absent, status |-> Absent, assignee |-> Absent, priority |-> Absent,
      description |-> "m2", env |-> Absent, template_key |-> "note"]}

(* ---------------------------- calls in flight ------------------------ *)

\* the threads of the web server and of the Bolt listener pool: each serves one
\* request, and requests overlap
Threads == 1..MaxCalls

\* the TicketService instances (processes of the service) on the one sheet
Instances == {1, 2}

\* no form: the request is not a form submission
NoSub ==
    [requester |-> Absent, status |-> Absent, assignee |-> Absent, priority |-> Absent,
     description |-> Absent, env |-> Absent, template_key |-> ""]

\* the values a call is going to write, by column; a call fills in the columns
\* of its plan
NoCells ==
    [ticket_id |-> "", requester |-> "", status |-> "", priority |-> "", assignee |-> "",
     created_at |-> "", first_response |-> << >>, resolved_at |-> "", message |-> "",
     channel_id |-> "", custom |-> NoCustom, internal_message_ts |-> ""]

\* a request: the operation, the ticket, the acting user, the status, priority,
\* assignee or text argument, the form, and the instance that serves it
RequestOf(op, id, user, arg, sub, instance) ==
    [op |-> op, id |-> id, user |-> user, arg |-> arg, sub |-> sub, instance |-> instance]

\* a thread and the call it is in: pc is the store call it is about to make
\* ("idle" before the request arrives, "done" after the return), row_index the
\* row it located, plan the columns it writes in order and cells their
\* values, wrote the number of writes of the plan that went through, ok the
\* value returned, fault whether a store call of it failed
CallOf(req, pc) ==
    [op |-> req.op, id |-> req.id, user |-> req.user, arg |-> req.arg, sub |-> req.sub,
     instance |-> req.instance, pc |-> pc, row_index |-> 0, plan |-> << >>,
     cells |-> NoCells, wrote |-> 0, ok |-> FALSE, fault |-> FALSE]

Idle == CallOf(RequestOf("", "", "", "", NoSub, 0), "idle")

NoCalls == [t \in Threads |-> Idle]

\* no instance has been built yet: next_ticket_id 0 stands for that; fault is
\* whether the read of the sheet made by the constructor failed
NoInstances == [i \in Instances |-> [next_ticket_id |-> 0, fault |-> FALSE]]

\* the form the creator of ticket 3 submits from the locked form (no status
\* input)
CreatorForm ==
    [requester |-> "U1", status |-> Absent, assignee |-> "U2", priority |-> "high",
     description |-> "m2", env |-> "staging", template_key |-> "tech_default"]

\* the requests that overlap on ticket 3 of C1 (creator U1, admin U2): Close and
\* reopen, an assignment by name, Assign to Me, a priority change, two thread
\* replies and the creator's form
RaceRequests ==
    {RequestOf("update_status", "3", "U2", st, NoSub, 1) : st \in {"Open", "Closed"}}
    \cup {RequestOf("update_assignee", "3", "", "@Carol", NoSub, 1),
          RequestOf("assign_me", "3", "U3", "", NoSub, 1),
          RequestOf("update_priority", "3", "", "High", NoSub, 1),
          RequestOf("thread_reply", "3", "U2", "on it", NoSub, 1),
          RequestOf("thread_reply", "3", "U3", "looking", NoSub, 1),
          RequestOf("modal_submission", "3", "U1", "", CreatorForm, 1)}

\* the first store call of an operation: the handlers of a thread reply and of
\* the form read the ticket themselves, Assign to Me calls the sheet layer
\* directly, the others enter through TicketService
FirstPc(op) ==
    CASE op \in {"thread_reply", "modal_submission"} -> "handler_get"
      [] op = "assign_me" -> "find_row"
      [] OTHER -> "get_ticket"

\* get_tickets answering a failed read with the rows as they are
ReadTicketsAnyway(rs, read_ok) == rs

\* get_tickets as a caller sees it: [] when the read raised
ReadTickets(rs, read_ok) == IF read_ok THEN rs ELSE << >>

\* the return of a call
Finish(call, ok, fault) == [call EXCEPT !.pc = "done", !.ok = ok, !.fault = fault]

\* no store call of the run has failed so far
NoFault == \A t \in Threads : ~calls[t].fault

\* the cells handle_modal_submission_direct passes to update_ticket_from_modal,
\* from the ticket it read
ModalCells(ticket, user_id, sub) ==
    LET is_admin == user_id \in AdminIds(ticket.channel_id)
        is_creator == IsCreator(user_id, ticket)
        requester_id == IF sub.requester = Absent THEN "" ELSE sub.requester
        assignee_id == IF sub.assignee = Absent THEN "" ELSE sub.assignee
    IN  [NoCells EXCEPT
            !.requester = IF requester_id # "" THEN AtName(requester_id) ELSE "",
            !.assignee = IF assignee_id # "" THEN AtName(assignee_id) ELSE "",
            !.status = IF is_creator /\ ~is_admin
                       THEN ticket.status
                       ELSE IF sub.status # Absent THEN sub.status ELSE ticket.status,
            !.priority = IF sub.priority # Absent THEN sub.priority ELSE "MEDIUM",
            !.message = IF sub.description # Absent THEN sub.description ELSE "",
            !.custom = [k \in CustomKeys |->
                           CASE k = "requester_id" ->
                                    IF requester_id # "" THEN requester_id ELSE Absent
                             [] k = "assignee_id" ->
                                    IF assignee_id # "" THEN assignee_id ELSE Absent
                             [] OTHER -> sub.env]]

\* a form update that takes the status to write from the row as it is when the
\* row is located
PlanOfRowStatus(call, row, now) ==
    CASE call.op = "update_status" ->
             [plan |-> <<"status", "resolved_at">>,
              cells |-> [NoCells EXCEPT !.status = call.arg,
                                        !.resolved_at = IF call.arg = "Closed" THEN now ELSE ""]]
      [] call.op = "update_assignee" ->
             [plan |-> <<"assignee">>,
              cells |-> [NoCells EXCEPT !.assignee = call.arg]]
      [] call.op = "assign_me" ->
             [plan |-> <<"assignee", "custom">>,
              cells |-> [NoCells EXCEPT !.assignee = AtName(call.user),
                                        !.custom = [row.custom EXCEPT !["assignee_id"] = call.user]]]
      [] call.op = "update_priority" ->
             [plan |-> <<"priority">>,
              cells |-> [NoCells EXCEPT !.priority = Upper(call.arg)]]
      [] call.op = "thread_reply" ->
             [plan |-> <<"first_response">>,
              cells |-> [NoCells EXCEPT !.first_response = <<now, call.user, call.arg>>]]
      [] OTHER ->
             [plan |-> <<"requester", "status", "priority", "assignee", "created_at">>
                         \o (IF row.status = "Closed" THEN <<"resolved_at">> ELSE << >>)
                         \o <<"message", "custom">>,
              cells |-> [call.cells EXCEPT !.status = row.status,
                                           !.created_at = now, !.resolved_at = now]]

\* an Assign to Me that writes a custom-fields cell holding the assignee id
\* alone
PlanOfAssigneeIdOnly(call, row, now) ==
    CASE call.op = "update_status" ->
             [plan |-> <<"status", "resolved_at">>,
              cells |-> [NoCells EXCEPT !.status = call.arg,
                                        !.resolved_at = IF call.arg = "Closed" THEN now ELSE ""]]
      [] call.op = "update_assignee" ->
             [plan |-> <<"assignee">>,
              cells |-> [NoCells EXCEPT !.assignee = call.arg]]
      [] call.op = "assign_me" ->
             [plan |-> <<"assignee", "custom">>,
              cells |-> [NoCells EXCEPT !.assignee = AtName(call.user),
                                        !.custom = [NoCustom EXCEPT !["assignee_id"] = call.user]]]
      [] call.op = "update_priority" ->
             [plan |-> <<"priority">>,
              cells |-> [NoCells EXCEPT !.priority = Upper(call.arg)]]
      [] call.op = "thread_reply" ->
             [plan |-> <<"first_response">>,
              cells |-> [NoCells EXCEPT !.first_response = <<now, call.user, call.arg>>]]
      [] OTHER ->
             [plan |-> <<"requester", "status", "priority", "assignee", "created_at">>
                         \o (IF call.cells.status = "Closed" THEN <<"resolved_at">> ELSE << >>)
                         \o <<"message", "custom">>,
              cells |-> [call.cells EXCEPT !.created_at = now, !.resolved_at = now]]

\* the columns an update writes, in the order of its writes, and their values,
\* fixed once the row is located: row is the row as read, now the clock
PlanOf(call, row, now) ==
    CASE call.op = "update_status" ->
             [plan |-> <<"status", "resolved_at">>,
              cells |-> [NoCells EXCEPT !.status = call.arg,
                                        !.resolved_at = IF call.arg = "Closed" THEN now ELSE ""]]
      [] call.op = "update_assignee" ->
             [plan |-> <<"assignee">>,
              cells |-> [NoCells EXCEPT !.assignee = call.arg]]
      [] call.op = "assign_me" ->
             [plan |-> <<"assignee", "custom">>,
              cells |-> [NoCells EXCEPT !.assignee = AtName(call.user),
                                        !.custom = [row.custom EXCEPT !["assignee_id"] = call.user]]]
      [] call.op = "update_priority" ->
             [plan |-> <<"priority">>,
              cells |-> [NoCells EXCEPT !.priority = Upper(call.arg)]]
      [] call.op = "thread_reply" ->
             [plan |-> <<"first_response">>,
              cells |-> [NoCells EXCEPT !.first_response = <<now, call.user, call.arg>>]]
      [] OTHER ->
             [plan |-> <<"requester", "status", "priority", "assignee", "created_at">>
                         \o (IF call.cells.status = "Closed" THEN <<"resolved_at">> ELSE << >>)
                         \o <<"message", "custom">>,
              cells |-> [call.cells EXCEPT !.created_at = now, !.resolved_at = now]]

\* an update that writes the whole row from the values it holds, the cells it
\* does not own blank
WriteCellWholeRow(rs, row_index, column, cells) ==
    [rs EXCEPT ![row_index] = [cells EXCEPT !.ticket_id = rs[row_index].ticket_id,
                                            !.channel_id = rs[row_index].channel_id]]

\* an update of the first-response cell that leaves a cell already filled as
\* it is
WriteCellIfEmpty(rs, row_index, column, cells) ==
    IF column = "first_response" /\ rs[row_index].first_response # << >>
    THEN rs
    ELSE [rs EXCEPT ![row_index] = [@ EXCEPT ![column] = cells[column]]]

\* one values().update of a single cell
WriteCell(rs, row_index, column, cells) ==
    [rs EXCEPT ![row_index] = [@ EXCEPT ![column] = cells[column]]]

(* ---------------------------- actions --------------------------------- *)

\* what the last request was (operation, ticket id, acting user, status or
\* priority argument, channel of the payload, message event) and what it
\* returned: success, the store writes issued, the field id a modal response's
\* errors are keyed to, the Slack calls issued (fx), and whether the Config tab
\* could be read and the chat_postMessage and chat_update calls went through
\* while it was handled (users_info and views_open answer)
Returned(op, id, user, arg, ok, writes) ==
    [op |-> op, id |-> id, user |-> user, arg |-> arg, ok |-> ok, writes |-> writes,
     errors |-> "", channel |-> "", event |-> NoEvent, fx |-> NoFx,
     config_ok |-> TRUE, slack_ok |-> TRUE]

Done(op, id, user, arg, res) ==
    last' = Returned(op, id, user, arg, res.ok, res.writes)

\* a request handled to completion before the next one: no call is in flight
Step == steps < MaxSteps /\ steps' = steps + 1 /\ UNCHANGED <<calls, instances>>

\* the handlers take one more request
Request == steps < MaxRequests

Init ==
    /\ rows \in InitStores
    /\ store0 = rows
    /\ service = "down"
    /\ next_ticket_id = 0
    /\ steps = 0
    /\ allocated = << >>
    /\ last = Returned("none", "", "", "", TRUE, 0)
    /\ calls = NoCalls
    /\ instances = NoInstances

InitDup ==
    /\ rows \in DupStores
    /\ store0 = rows
    /\ service = "down"
    /\ next_ticket_id = 0
    /\ steps = 0
    /\ allocated = << >>
    /\ last = Returned("none", "", "", "", TRUE, 0)
    /\ calls = NoCalls
    /\ instances = NoInstances

\* TicketService.__init__ (app.py builds the one instance at import)
Start ==
    /\ service = "down"
    /\ LET n == GetNextTicketId(rows) IN
         /\ service' = IF n = 0 THEN "failed" ELSE "up"
         /\ next_ticket_id' = n
         /\ last' = Returned("start", "", "", "", n # 0, 0)
    /\ UNCHANGED <<rows, steps, allocated, store0, calls, instances>>

\* create_ticket that forgets to advance next_ticket_id
CreateTicketNoIncrement(message_text, requester_id, channel_id, priority, api_ok) ==
    /\ service = "up"
    /\ Step
    /\ next_ticket_id <= Len(IdStr)
    /\ LET ticket_id == ToStr(next_ticket_id)
           ticket_data == [ticket_id |-> ticket_id,
                           channel_id |-> channel_id,
                           created_by |-> requester_id,
                           requester_name |-> AtName(requester_id),
                           priority |-> priority,
                           description |-> message_text]
           res == AppendTicket(rows, ticket_data, Now, api_ok)
       IN  /\ next_ticket_id' = next_ticket_id
           /\ allocated' = Append(allocated, ticket_id)
           /\ rows' = res.rows
           /\ Done("create", ticket_id, requester_id, priority, res)
    /\ UNCHANGED <<service, store0>>

\* TicketService.create_ticket
CreateTicket(message_text, requester_id, channel_id, priority, api_ok) ==
    /\ service = "up"
    /\ Step
    /\ next_ticket_id <= Len(IdStr)
    /\ LET ticket_id == ToStr(next_ticket_id)
           ticket_data == [ticket_id |-> ticket_id,
                           channel_id |-> channel_id,
                           created_by |-> requester_id,
                           requester_name |-> AtName(requester_id),
                           priority |-> priority,
                           description |-> message_text]
           res == AppendTicket(rows, ticket_data, Now, api_ok)
       IN  /\ next_ticket_id' = next_ticket_id + 1
           /\ allocated' = Append(allocated, ticket_id)
           /\ rows' = res.rows
           /\ Done("create", ticket_id, requester_id, priority, res)
    /\ UNCHANGED <<service, store0>>

\* SheetsService.append_ticket called directly with a ticket dict
AppendTicketDirect(ticket_id, channel_id, api_ok) ==
    /\ service = "up"
    /\ Step
    /\ LET ticket_data == [ticket_id |-> ticket_id,
                           channel_id |-> channel_id,
                           created_by |-> "U1",
                           requester_name |-> AtName("U1"),
                           priority |-> "Medium",
                           description |-> "m1"]
           res == AppendTicket(rows, ticket_data, Now, api_ok)
       IN  /\ rows' = res.rows
           /\ Done("append", ticket_id, "U1", "Medium", res)
    /\ UNCHANGED <<service, next_ticket_id, allocated, store0>>

\* TicketService.update_ticket_status
UpdateTicketStatus(ticket_id, new_status) ==
    /\ service = "up"
    /\ Step
    /\ LET res == UpdateStatusResult(rows, ticket_id, new_status, Now) IN
         /\ rows' = res.rows
         /\ Done("update_status", ticket_id, "", new_status, res)
    /\ UNCHANGED <<service, next_ticket_id, allocated, store0>>

\* TicketService.update_ticket_assignee
UpdateTicketAssignee(ticket_id, assignee_id) ==
    /\ service = "up"
    /\ Step
    /\ LET res == UpdateAssigneeResult(rows, ticket_id, assignee_id) IN
         /\ rows' = res.rows
         /\ Done("update_assignee", ticket_id, "", assignee_id, res)
    /\ UNCHANGED <<service, next_ticket_id, allocated, store0>>

\* TicketService.update_ticket_priority
UpdateTicketPriority(ticket_id, priority) ==
    /\ service = "up"
    /\ Step
    /\ LET res == UpdatePriorityResult(rows, ticket_id, priority) IN
         /\ rows' = res.rows
         /\ Done("update_priority", ticket_id, "", priority, res)
    /\ UNCHANGED <<service, next_ticket_id, allocated, store0>>

\* TicketService.update_ticket_first_response
UpdateTicketFirstResponse(ticket_id, response_text, responder_id) ==
    /\ service = "up"
    /\ Step
    /\ LET res == UpdateFirstResponseResult(rows, ticket_id, response_text,
                                            responder_id, Now) IN
         /\ rows' = res.rows
         /\ Done("first_response", ticket_id, responder_id, "", res)
    /\ UNCHANGED <<service, next_ticket_id, allocated, store0>>

\* handle_message_events for a reply in the thread of ticket_id
ThreadReply(ticket_id, response_text, responder_id) ==
    /\ service = "up"
    /\ Step
    /\ LET res == ThreadReplyResult(rows, ticket_id, response_text, responder_id, Now) IN
         /\ rows' = res.rows
         /\ Done("thread_reply", ticket_id, responder_id, "", res)
    /\ UNCHANGED <<service, next_ticket_id, allocated, store0>>

\* TicketService.update_ticket_from_modal
UpdateTicketFromModal(ticket_id, requester, status, assignee, priority, description, custom_fields) ==
    /\ service = "up"
    /\ Step
    /\ LET res == UpdateFromModalResult(rows, ticket_id, requester, status, assignee,
                                        priority, description, custom_fields, Now) IN
         /\ rows' = res.rows
         /\ Done("update_from_modal", ticket_id, "", status, res)
    /\ UNCHANGED <<service, next_ticket_id, allocated, store0>>

\* SheetsService.update_internal_message_ts, after the card is posted
UpdateInternalMessageTs(ticket_id, internal_message_ts) ==
    /\ service = "up"
    /\ Step
    /\ LET res == SheetsUpdateInternalMessageTs(rows, ticket_id, internal_message_ts) IN
         /\ rows' = res.rows
         /\ Done("update_internal_message_ts", ticket_id, "", "", res)
    /\ UNCHANGED <<service, next_ticket_id, allocated, store0>>

\* handle_modal_submission_direct
ModalSubmission(user_id, ticket_id, sub, config_ok, slack_ok) ==
    /\ service = "up"
    /\ Step
    /\ LET cfg_map == GetChannelConfigMap(config_ok)
           res == ModalSubmissionResult(cfg_map, rows, user_id, ticket_id, sub, Now)
           channel_id == IF HasTicket(rows, ticket_id)
                         THEN GetTicket(rows, ticket_id).channel_id ELSE ""
       IN  /\ rows' = res.rows
           /\ last' = [Returned("modal_submission", ticket_id, user_id, sub.status,
                                 res.ok, res.writes)
                           EXCEPT !.errors = ModalSubmissionErrors(cfg_map, rows, user_id, ticket_id, sub),
                                  !.channel = channel_id,
                                  !.fx = ModalSubmissionFx(cfg_map, res.rows, channel_id, ticket_id, res.ok),
                                  !.config_ok = config_ok,
                                  !.slack_ok = slack_ok]
    /\ UNCHANGED <<service, next_ticket_id, allocated, store0>>

\* handle_dynamic_modal_submission (the Bolt listener of the form)
BoltModalSubmission(user_id, ticket_id, sub, config_ok, slack_ok) ==
    /\ service = "up"
    /\ Step
    /\ LET cfg_map == GetChannelConfigMap(config_ok)
           res == BoltModalSubmissionResult(cfg_map, rows, user_id, ticket_id, sub, Now)
           channel_id == IF HasTicket(rows, ticket_id)
                         THEN GetTicket(rows, ticket_id).channel_id ELSE ""
       IN  /\ rows' = res.rows
           /\ last' = [Returned("bolt_modal_submission", ticket_id, user_id, sub.status,
                                 res.ok, res.writes)
                           EXCEPT !.channel = channel_id,
                                  !.fx = BoltModalSubmissionFx(res.ok),
                                  !.config_ok = config_ok,
                                  !.slack_ok = slack_ok]
    /\ UNCHANGED <<service, next_ticket_id, allocated, store0>>

\* handle_internal_change_status_direct (the button of the card, in the
\* internal channel); a failed card update or notification is logged
InternalChangeStatus(user_id, ticket_id, slack_ok) ==
    /\ service = "up"
    /\ Step
    /\ LET res == InternalChangeStatusResult(rows, ticket_id, Now) IN
         /\ rows' = res.rows
         /\ last' = [Returned("internal_change_status", ticket_id, user_id, "",
                               res.ok, res.writes)
                         EXCEPT !.channel = "CI",
                                !.fx = InternalActionFx(res.rows, "CI", ticket_id, res.ok),
                                !.slack_ok = slack_ok]
    /\ UNCHANGED <<service, next_ticket_id, allocated, store0>>

\* handle_close_ticket_direct that undoes the close and answers with an error
\* when the notification or the card update fails
CloseTicketRollsBack(user_id, channel_id, ticket_id, config_ok, slack_ok) ==
    /\ service = "up"
    /\ Step
    /\ LET cfg_map == GetChannelConfigMap(config_ok)
           res == CloseTicketResult(cfg_map, rows, user_id, channel_id, ticket_id, Now)
       IN  /\ rows' = IF slack_ok THEN res.rows ELSE rows
           /\ last' = [Returned("close_ticket", ticket_id, user_id, "",
                                 res.ok /\ slack_ok, res.writes)
                           EXCEPT !.channel = channel_id,
                                  !.fx = CloseTicketFx(cfg_map, res.rows, channel_id, ticket_id, res.ok),
                                  !.config_ok = config_ok,
                                  !.slack_ok = slack_ok]
    /\ UNCHANGED <<service, next_ticket_id, allocated, store0>>

\* handle_close_ticket_direct; a failed notification or card update is logged
CloseTicket(user_id, channel_id, ticket_id, config_ok, slack_ok) ==
    /\ service = "up"
    /\ Step
    /\ LET cfg_map == GetChannelConfigMap(config_ok)
           res == CloseTicketResult(cfg_map, rows, user_id, channel_id, ticket_id, Now)
       IN  /\ rows' = res.rows
           /\ last' = [Returned("close_ticket", ticket_id, user_id, "",
                                 res.ok, res.writes)
                           EXCEPT !.channel = channel_id,
                                  !.fx = CloseTicketFx(cfg_map, res.rows, channel_id, ticket_id, res.ok),
                                  !.config_ok = config_ok,
                                  !.slack_ok = slack_ok]
    /\ UNCHANGED <<service, next_ticket_id, allocated, store0>>

\* SlackHandler.handle_close_ticket (the Bolt listener of the Close button)
BoltCloseTicket(user_id, channel_id, ticket_id, config_ok, slack_ok) ==
    /\ service = "up"
    /\ Step
    /\ LET cfg_map == GetChannelConfigMap(config_ok)
           res == CloseTicketResult(cfg_map, rows, user_id, channel_id, ticket_id, Now)
       IN  /\ rows' = res.rows
           /\ last' = [Returned("bolt_close_ticket", ticket_id, user_id, "",
                                 res.ok, res.writes)
                           EXCEPT !.channel = channel_id,
                                  !.fx = BoltCloseTicketFx(res.ok, slack_ok),
                                  !.config_ok = config_ok,
                                  !.slack_ok = slack_ok]
    /\ UNCHANGED <<service, next_ticket_id, allocated, store0>>

\* handle_internal_assign_me_direct (the button of the card)
InternalAssignMe(user_id, ticket_id, slack_ok) ==
    /\ service = "up"
    /\ Step
    /\ LET res == InternalAssignMeResult(rows, user_id, ticket_id) IN
         /\ rows' = res.rows
         /\ last' = [Returned("internal_assign_me", ticket_id, user_id, "",
                               res.ok, res.writes)
                         EXCEPT !.channel = "CI",
                                !.fx = InternalActionFx(res.rows, "CI", ticket_id, res.ok),
                                !.slack_ok = slack_ok]
    /\ UNCHANGED <<service, next_ticket_id, allocated, store0>>

\* handle_view_edit_ticket_direct (the button of the origin thread)
ViewEditTicket(user_id, channel_id, ticket_id, config_ok) ==
    /\ service = "up"
    /\ Step
    /\ LET cfg_map == GetChannelConfigMap(config_ok) IN
         last' = [Returned("view_edit_ticket", ticket_id, user_id, "",
                            HasTicket(rows, ticket_id), 0)
                      EXCEPT !.channel = channel_id,
                             !.fx = ViewEditTicketFx(cfg_map, rows, user_id, channel_id, ticket_id),
                             !.config_ok = config_ok]
    /\ UNCHANGED <<rows, service, next_ticket_id, allocated, store0>>

\* handle_internal_view_edit_direct (the button of the card)
InternalViewEdit(user_id, ticket_id, config_ok) ==
    /\ service = "up"
    /\ Step
    /\ LET cfg_map == GetChannelConfigMap(config_ok) IN
         last' = [Returned("internal_view_edit", ticket_id, user_id, "",
                            HasTicket(rows, ticket_id), 0)
                      EXCEPT !.channel = "CI",
                             !.fx = InternalViewEditFx(cfg_map, rows, user_id, ticket_id),
                             !.config_ok = config_ok]
    /\ UNCHANGED <<rows, service, next_ticket_id, allocated, store0>>

\* SlackHandler.handle_view_edit_ticket (the Bolt listener of the button)
BoltViewEditTicket(user_id, channel_id, ticket_id, config_ok) ==
    /\ service = "up"
    /\ Step
    /\ LET cfg_map == GetChannelConfigMap(config_ok)
           fx == BoltViewEditTicketFx(cfg_map, rows, user_id, channel_id, ticket_id)
       IN  last' = [Returned("bolt_view_edit_ticket", ticket_id, user_id, "",
                              fx.view # "", 0)
                        EXCEPT !.channel = channel_id,
                               !.fx = fx,
                               !.config_ok = config_ok]
    /\ UNCHANGED <<rows, service, next_ticket_id, allocated, store0>>

\* SlackHandler.handle_message_events; for a top-level message: create_ticket,
\* then say() of the confirmation formatted with whatever create_ticket
\* returned, then the card for a ticket get_ticket finds; a say() that raises
\* ends the handler
MessageEvent(event, config_ok, slack_ok, api_ok) ==
    /\ service = "up"
    /\ Step
    /\ LET cfg_map == GetChannelConfigMap(config_ok)
           is_internal_channel ==
               \E c \in DOMAIN cfg_map : cfg_map[c].internal_channel_id = event.channel
           said(op, id, ok, writes, fx) ==
               [Returned(op, id, event.user, "", ok, writes)
                   EXCEPT !.channel = event.channel, !.event = event, !.fx = fx,
                          !.config_ok = config_ok, !.slack_ok = slack_ok]
       IN  IF event.bot \/ event.subtype # ""
           THEN /\ last' = said("message_ignored", "", TRUE, 0, NoFx)
                /\ UNCHANGED <<rows, next_ticket_id, allocated>>
           ELSE IF is_internal_channel /\ event.thread # ""
           THEN /\ last' = said("message_internal_reply", "", TRUE, 0,
                                [NoFx EXCEPT !.forwards =
                                    IF \E id \in TicketIds(rows) :
                                          GetTicket(rows, id).internal_message_ts = event.thread
                                    THEN 1 ELSE 0])
                /\ UNCHANGED <<rows, next_ticket_id, allocated>>
           ELSE IF /\ ~StartsWithD(event.channel)
                   /\ ~StartsWithG(event.channel)
                   /\ ~is_internal_channel
                   /\ event.user # ""
                   /\ event.text # ""
                   /\ event.thread = ""
           THEN /\ next_ticket_id <= Len(IdStr)
                /\ LET ticket_id == ToStr(next_ticket_id)
                       ticket_data == [ticket_id |-> ticket_id,
                                       channel_id |-> event.channel,
                                       created_by |-> event.user,
                                       requester_name |-> AtName(event.user),
                                       priority |-> "Medium",
                                       description |-> event.text]
                       res == AppendTicket(rows, ticket_data, Now, api_ok)
                       internal_channel_id == InternalChannelId(cfg_map, event.channel)
                       created_id == IF res.ok THEN ticket_id ELSE "None"
                       posted == slack_ok /\ internal_channel_id # "" /\ res.ok
                                 /\ HasTicket(res.rows, ticket_id)
                       stored == IF posted
                                 THEN SheetsUpdateInternalMessageTs(res.rows, ticket_id,
                                                                    CardTs(ticket_id))
                                 ELSE Result(res.rows, TRUE, 0)
                   IN  /\ next_ticket_id' = next_ticket_id + 1
                       /\ allocated' = Append(allocated, ticket_id)
                       /\ rows' = stored.rows
                       /\ last' = said("message_create", ticket_id, res.ok,
                                       res.writes + stored.writes,
                                       [NoFx EXCEPT !.confirmations = IF slack_ok THEN 1 ELSE 0,
                                                    !.confirmed_id = IF slack_ok THEN created_id ELSE "",
                                                    !.card_posts = IF posted THEN 1 ELSE 0])
           ELSE IF event.thread # ""
           THEN LET res == ThreadReplyResult(rows, event.thread, event.text, event.user, Now)
                    internal_channel_id == InternalChannelId(cfg_map, event.channel)
                    forwarded ==
                        /\ HasTicket(rows, event.thread)
                        /\ internal_channel_id # ""
                        /\ GetTicket(rows, event.thread).internal_message_ts # ""
                IN  /\ rows' = res.rows
                    /\ last' = said("message_reply", event.thread, res.ok, res.writes,
                                    [NoFx EXCEPT !.forwards = IF forwarded THEN 1 ELSE 0])
                    /\ UNCHANGED <<next_ticket_id, allocated>>
           ELSE /\ last' = said("message_ignored", "", TRUE, 0, NoFx)
                /\ UNCHANGED <<rows, next_ticket_id, allocated>>
    /\ UNCHANGED <<service, store0>>

Next ==
    \/ Start
    \/ \E ch \in Channels, api_ok \in BOOLEAN :
          CreateTicket("m1", "U1", ch, "Medium", api_ok)
    \/ \E id \in AppendIds, api_ok \in BOOLEAN : AppendTicketDirect(id, "C1", api_ok)
    \/ \E id \in RequestIds, s \in StatusInputs : UpdateTicketStatus(id, s)
    \/ \E id \in RequestIds, a \in AssigneeInputs : UpdateTicketAssignee(id, a)
    \/ \E id \in RequestIds, p \in PriorityInputs : UpdateTicketPriority(id, p)
    \/ \E id \in RequestIds : UpdateTicketFirstResponse(id, "on it", "U2")
    \/ \E id \in RequestIds : ThreadReply(id, "looking", "U3")
    \/ \E id \in RequestIds, s \in StatusInputs, cf \in FormCustomFields :
          UpdateTicketFromModal(id, "U2", s, "U2", "Critical", "m2", cf)
    \/ \E id \in RequestIds : UpdateInternalMessageTs(id, "ts1")
    \/ \E u \in UserIds, id \in RequestIds, sub \in ModalSubmissions :
          ModalSubmission(u, id, sub, TRUE, TRUE)
    \/ \E id \in RequestIds : InternalChangeStatus("U1", id, TRUE)
    \/ \E u \in UserIds, ch \in Channels, id \in RequestIds :
          CloseTicket(u, ch, id, TRUE, TRUE)
    \/ \E u \in UserIds, id \in RequestIds : InternalAssignMe(u, id, TRUE)

Spec == Init /\ [][Next]_vars

\* the service on a sheet where two appends of the same id both went through
SpecDup == InitDup /\ [][Next]_vars

\* the service started on a sheet of a running deployment, or on an empty one
InitHandlers ==
    /\ rows \in HandlerStores
    /\ store0 = rows
    /\ service = "down"
    /\ next_ticket_id = 0
    /\ steps = 0
    /\ allocated = << >>
    /\ last = Returned("none", "", "", "", TRUE, 0)
    /\ calls = NoCalls
    /\ instances = NoInstances

\* the requests Slack delivers: message events and the interactive payloads of
\* the buttons and the form, to the Flask routes and to the Bolt listeners,
\* each under the failures of Envs
NextHandlers ==
    \/ Start
    \/ \E ev \in MessageEvents, env \in Envs :
          Request /\ MessageEvent(ev, env.config_ok, env.slack_ok, env.api_ok)
    \/ \E u \in UserIds, ch \in Channels, id \in HandlerIds, config_ok \in BOOLEAN :
          Request /\ ViewEditTicket(u, ch, id, config_ok)
    \/ \E u \in UserIds, id \in HandlerIds, config_ok \in BOOLEAN :
          Request /\ InternalViewEdit(u, id, config_ok)
    \/ \E u \in UserIds, ch \in Channels, id \in HandlerIds, config_ok \in BOOLEAN :
          Request /\ BoltViewEditTicket(u, ch, id, config_ok)
    \/ \E u \in UserIds, ch \in Channels \cup {"C3"}, id \in HandlerIds, env \in Envs :
          Request /\ env.api_ok /\ CloseTicket(u, ch, id, env.config_ok, env.slack_ok)
    \/ \E u \in UserIds, ch \in Channels, id \in HandlerIds, env \in Envs :
          Request /\ env.api_ok /\ BoltCloseTicket(u, ch, id, env.config_ok, env.slack_ok)
    \/ \E u \in UserIds, id \in HandlerIds, slack_ok \in BOOLEAN :
          Request /\ InternalChangeStatus(u, id, slack_ok)
    \/ \E u \in UserIds, id \in HandlerIds, slack_ok \in BOOLEAN :
          Request /\ InternalAssignMe(u, id, slack_ok)
    \/ \E u \in UserIds, id \in HandlerIds, sub \in HandlerSubmissions, env \in Envs :
          Request /\ env.api_ok /\ ModalSubmission(u, id, sub, env.config_ok, env.slack_ok)
    \/ \E u \in UserIds, id \in HandlerIds, sub \in HandlerSubmissions, env \in Envs :
          Request /\ env.api_ok /\ BoltModalSubmission(u, id, sub, env.config_ok, env.slack_ok)

SpecHandlers == InitHandlers /\ [][NextHandlers]_vars

(* ---------------------------- overlapping calls ---------------------- *)

\* a request arrives and a thread takes it; threads are taken in order
CallStart(t, req) ==
    /\ calls[t].pc = "idle"
    /\ \A u \in Threads : u < t => calls[u].pc # "idle"
    /\ steps' = steps + 1
    /\ calls' = [calls EXCEPT ![t] = CallOf(req, FirstPc(req.op))]
    /\ UNCHANGED <<rows, service, next_ticket_id, last, allocated, store0, instances>>

\* the read of the handler before it calls TicketService: the thread-reply
\* branch of handle_message_events goes on only for a ticket without a first
\* response, handle_modal_submission_direct only for an admin or the creator,
\* with the cells computed from the ticket it read
HandlerGetStep(t, read_ok) ==
    /\ calls[t].pc = "handler_get"
    /\ LET call == calls[t]
           rs == ReadTickets(rows, read_ok)
       IN  calls' = [calls EXCEPT ![t] =
              IF ~HasTicket(rs, call.id)
              THEN Finish(call, FALSE, ~read_ok)
              ELSE LET ticket == GetTicket(rs, call.id) IN
                   IF call.op = "thread_reply"
                   THEN IF ticket.first_response = << >>
                        THEN [call EXCEPT !.pc = "get_ticket"]
                        ELSE Finish(call, FALSE, FALSE)
                   ELSE IF /\ call.user \notin AdminIds(ticket.channel_id)
                           /\ ~IsCreator(call.user, ticket)
                        THEN Finish(call, FALSE, FALSE)
                        ELSE [call EXCEPT !.pc = "get_ticket",
                                          !.cells = ModalCells(ticket, call.user, call.sub)]]
    /\ UNCHANGED <<rows, service, next_ticket_id, steps, last, allocated, store0, instances>>

\* TicketService.update_ticket_*: get_ticket, then the validation of the
\* status or priority
GetTicketStep(t, read_ok) ==
    /\ calls[t].pc = "get_ticket"
    /\ LET call == calls[t]
           rs == ReadTickets(rows, read_ok)
       IN  calls' = [calls EXCEPT ![t] =
              IF ~HasTicket(rs, call.id)
              THEN Finish(call, FALSE, ~read_ok)
              ELSE IF call.op = "update_status" /\ call.arg \notin {"Open", "Closed"}
              THEN Finish(call, FALSE, FALSE)
              ELSE IF /\ call.op = "update_priority"
                      /\ call.arg \notin {"Low", "Medium", "High", "Urgent"}
              THEN Finish(call, FALSE, FALSE)
              ELSE [call EXCEPT !.pc = "find_row"]]
    /\ UNCHANGED <<rows, service, next_ticket_id, steps, last, allocated, store0, instances>>

\* SheetsService.update_*: the values().get of the id column and the scan for
\* the first matching row; the clock is read and the values to write are fixed
FindRowStep(t, read_ok) ==
    /\ calls[t].pc = "find_row"
    /\ LET call == calls[t]
           i == FindRow(rows, call.id)
       IN  calls' = [calls EXCEPT ![t] =
              IF ~read_ok
              THEN Finish(call, FALSE, TRUE)
              ELSE IF i = 0
              THEN Finish(call, FALSE, FALSE)
              ELSE IF call.op = "update_priority"
                      /\ Upper(call.arg) \notin {"CRITICAL", "HIGH", "MEDIUM", "LOW"}
              THEN Finish(call, FALSE, FALSE)
              ELSE LET p == PlanOf(call, rows[i], Now) IN
                   [call EXCEPT !.pc = "write", !.row_index = i,
                                !.plan = p.plan, !.cells = p.cells]]
    /\ UNCHANGED <<rows, service, next_ticket_id, steps, last, allocated, store0, instances>>

\* the write of the next cell of the plan going on with the cell after it when
\* the write raised
WriteCellStepContinues(t, write_ok) ==
    /\ calls[t].pc = "write"
    /\ LET call == calls[t]
           column == call.plan[call.wrote + 1]
           last_write == call.wrote + 1 = Len(call.plan)
       IN  /\ rows' = IF write_ok
                      THEN WriteCell(rows, call.row_index, column, call.cells)
                      ELSE rows
           /\ calls' = [calls EXCEPT ![t] =
                 IF last_write
                 THEN IF call.op = "modal_submission"
                      THEN Finish([call EXCEPT !.wrote = @ + 1], TRUE, ~write_ok)
                      ELSE [call EXCEPT !.wrote = @ + 1, !.pc = "verify", !.fault = ~write_ok]
                 ELSE [call EXCEPT !.wrote = @ + 1, !.fault = ~write_ok]]
    /\ UNCHANGED <<service, next_ticket_id, steps, last, allocated, store0, instances>>

\* one values().update of the plan: the next cell is written; when the call
\* raises, the except branch of the update returns False; after the last write
\* update_ticket_from_modal returns True, the others go on to verify
WriteCellStep(t, write_ok) ==
    /\ calls[t].pc = "write"
    /\ LET call == calls[t]
           column == call.plan[call.wrote + 1]
           last_write == call.wrote + 1 = Len(call.plan)
       IN  /\ rows' = IF write_ok
                      THEN WriteCell(rows, call.row_index, column, call.cells)
                      ELSE rows
           /\ calls' = [calls EXCEPT ![t] =
                 IF ~write_ok
                 THEN Finish(call, FALSE, TRUE)
                 ELSE IF last_write
                 THEN IF call.op = "modal_submission"
                      THEN Finish([call EXCEPT !.wrote = @ + 1], TRUE, FALSE)
                      ELSE [call EXCEPT !.wrote = @ + 1, !.pc = "verify"]
                 ELSE [call EXCEPT !.wrote = @ + 1]]
    /\ UNCHANGED <<service, next_ticket_id, steps, last, allocated, store0, instances>>

\* the read-back of the first cell written: the update returns whether the
\* cell holds the value written (for the first response: starts with the time
\* written)
VerifyStep(t, read_ok) ==
    /\ calls[t].pc = "verify"
    /\ LET call == calls[t]
           row == rows[call.row_index]
           verified ==
               IF call.op = "thread_reply"
               THEN /\ row.first_response # << >>
                    /\ row.first_response[1] = call.cells.first_response[1]
               ELSE row[call.plan[1]] = call.cells[call.plan[1]]
       IN  calls' = [calls EXCEPT ![t] =
              IF read_ok THEN Finish(call, verified, FALSE) ELSE Finish(call, FALSE, TRUE)]
    /\ UNCHANGED <<rows, service, next_ticket_id, steps, last, allocated, store0, instances>>

\* the sheet the overlapping requests act on
InitRace ==
    /\ rows = HandlerStore
    /\ store0 = rows
    /\ service = "up"
    /\ next_ticket_id = GetNextTicketId(rows)
    /\ steps = 0
    /\ allocated = << >>
    /\ last = Returned("none", "", "", "", TRUE, 0)
    /\ calls = NoCalls
    /\ instances = NoInstances

\* every store call of a run goes through, or one of them fails
NextRace ==
    \/ \E t \in Threads, req \in RaceRequests : CallStart(t, req)
    \/ \E t \in Threads, read_ok \in BOOLEAN :
          (read_ok \/ NoFault) /\ HandlerGetStep(t, read_ok)
    \/ \E t \in Threads, read_ok \in BOOLEAN :
          (read_ok \/ NoFault) /\ GetTicketStep(t, read_ok)
    \/ \E t \in Threads, read_ok \in BOOLEAN :
          (read_ok \/ NoFault) /\ FindRowStep(t, read_ok)
    \/ \E t \in Threads, write_ok \in BOOLEAN :
          (write_ok \/ NoFault) /\ WriteCellStep(t, write_ok)
    \/ \E t \in Threads, read_ok \in BOOLEAN :
          (read_ok \/ NoFault) /\ VerifyStep(t, read_ok)

SpecRace == InitRace /\ [][NextRace]_vars

(* ---------------------------- two service instances ------------------ *)

\* TicketService.__init__ of instance i: the counter is computed from the
\* tickets read; instances are built before requests are served
StartInstance(i, read_ok) ==
    /\ instances[i].next_ticket_id = 0
    /\ steps = 0
    /\ LET n == GetNextTicketId(ReadTickets(rows, read_ok)) IN
         /\ n # 0
         /\ instances' = [instances EXCEPT ![i] = [next_ticket_id |-> n, fault |-> ~read_ok]]
    /\ UNCHANGED <<rows, service, next_ticket_id, steps, last, allocated, store0, calls>>

\* TicketService.create_ticket of instance i up to the call of append_ticket:
\* the id is taken from the instance's counter and the counter advanced
CreateStart(t, i, requester_id, channel_id) ==
    /\ calls[t].pc = "idle"
    /\ \A u \in Threads : u < t => calls[u].pc # "idle"
    /\ instances[i].next_ticket_id \in 1..Len(IdStr)
    /\ steps' = steps + 1
    /\ LET ticket_id == ToStr(instances[i].next_ticket_id) IN
         /\ instances' = [instances EXCEPT ![i].next_ticket_id = @ + 1]
         /\ allocated' = Append(allocated, ticket_id)
         /\ calls' = [calls EXCEPT ![t] =
               CallOf(RequestOf("create", ticket_id, requester_id, channel_id, NoSub, i),
                      "dup_check")]
    /\ UNCHANGED <<rows, service, next_ticket_id, last, store0>>

\* append_ticket, the look-up of the id among get_tickets(); the row to append
\* is built after it
DupCheckStep(t, read_ok) ==
    /\ calls[t].pc = "dup_check"
    /\ LET call == calls[t]
           existing_tickets == ReadTickets(rows, read_ok)
       IN  calls' = [calls EXCEPT ![t] =
              IF HasTicket(existing_tickets, call.id)
              THEN Finish(call, FALSE, ~read_ok)
              ELSE [call EXCEPT !.pc = "append",
                                !.fault = ~read_ok,
                                !.plan = <<"row">>,
                                !.cells = NewRow(call.id, AtName(call.user), "Medium", "m1",
                                                 call.arg, Now)]]
    /\ UNCHANGED <<rows, service, next_ticket_id, steps, last, allocated, store0, instances>>

\* an append that looks the id up again in the sheet at the moment it appends
AppendStepIfAbsent(t, api_ok) ==
    /\ calls[t].pc = "append"
    /\ LET call == calls[t] IN
         /\ rows' = IF api_ok /\ ~HasTicket(rows, call.id) THEN Append(rows, call.cells) ELSE rows
         /\ calls' = [calls EXCEPT ![t] =
               IF api_ok /\ ~HasTicket(rows, call.id)
               THEN Finish([call EXCEPT !.wrote = 1], TRUE, call.fault)
               ELSE Finish(call, FALSE, call.fault \/ ~api_ok)]
    /\ UNCHANGED <<service, next_ticket_id, steps, last, allocated, store0, instances>>

\* append_ticket, the values().append of the row
AppendStep(t, api_ok) ==
    /\ calls[t].pc = "append"
    /\ LET call == calls[t] IN
         /\ rows' = IF api_ok THEN Append(rows, call.cells) ELSE rows
         /\ calls' = [calls EXCEPT ![t] =
               IF api_ok
               THEN Finish([call EXCEPT !.wrote = 1], TRUE, call.fault)
               ELSE Finish(call, FALSE, TRUE)]
    /\ UNCHANGED <<service, next_ticket_id, steps, last, allocated, store0, instances>>

\* sheets two instances are built on: empty, the first ticket only, and the
\* sheet of a running deployment
InstanceStores == { << >>, << SeedRow("1", "C1") >>, HandlerStore }

InitInstances ==
    /\ rows \in InstanceStores
    /\ store0 = rows
    /\ service = "down"
    /\ next_ticket_id = 0
    /\ steps = 0
    /\ allocated = << >>
    /\ last = Returned("none", "", "", "", TRUE, 0)
    /\ calls = NoCalls
    /\ instances = NoInstances

\* two instances are built, each reading the sheet with or without success, and
\* serve the top-level messages of U1 in C1 and C2
NextInstances ==
    \/ \E i \in Instances, read_ok \in BOOLEAN : StartInstance(i, read_ok)
    \/ \E t \in Threads, i \in Instances, ch \in Channels : CreateStart(t, i, "U1", ch)
    \/ \E t \in Threads, read_ok \in BOOLEAN : DupCheckStep(t, read_ok)
    \/ \E t \in Threads, api_ok \in BOOLEAN : AppendStep(t, api_ok)

SpecInstances == InitInstances /\ [][NextInstances]_vars

(* ---------------------------- claims ---------------------------------- *)

\* C1: every ticket get/find_all returns has a non-empty resolved_at if and only
\* if its status is Closed (a ticket reopened through the modal form included).
C1_ResolvedIffClosed ==
    \A id \in TicketIds(rows) :
        (GetTicket(rows, id).resolved_at # "") <=> (GetTicket(rows, id).status = "Closed")

\* the operations that update one stored ticket
UpdateOps ==
    {"update_status", "update_assignee", "update_priority", "first_response",
     "update_from_modal", "update_internal_message_ts"}

\* C2: when several rows share a ticket_id, every successful update operation
\* changes only the row get/find_all reads for that id (the last one), so a get
\* after the update reflects it.
C2_UpdatesHitAuthoritativeRow ==
    [][(last'.op \in UpdateOps /\ last'.ok /\ Len(rows') = Len(rows))
          => \A i \in 1..Len(rows) :
                rows'[i] # rows[i] => i = LastRowOf(rows, rows[i].ticket_id)]_vars

\* C3: the ids one TicketService hands out (failed creates included) are strictly
\* increasing, so distinct, and none is an id the sheet already held; no
\* operation changes the ticket_id of a stored row or removes a row; no two
\* physical rows share a ticket_id.
C3_AllocatedFresh ==
    /\ \A i, j \in 1..Len(allocated) :
          i < j => ToInt(allocated[i]) < ToInt(allocated[j])
    /\ \A i \in 1..Len(allocated) : allocated[i] \notin TicketIds(store0)
    /\ \A i, j \in 1..Len(rows) : i # j => rows[i].ticket_id # rows[j].ticket_id

C4_CreatedByNeverChanges ==
    [][\A id \in TicketIds(rows) :
          /\ HasTicket(rows', id)
          /\ GetTicket(rows', id).created_by = GetTicket(rows, id).created_by]_vars

\* C5: the stored status of every ticket is Open or Closed.
C5_StatusOpenOrClosed ==
    \A i \in 1..Len(rows) : rows[i].status \in {"Open", "Closed"}

\* C6: a successful update_status(id, Closed) leaves the ticket Closed with a
\* non-empty resolved_at; a successful update_status(id, Open), also right after
\* that close, leaves it Open with an empty resolved_at.
C6_CloseStampsReopenClears ==
    [][(last'.op = "update_status" /\ last'.ok)
          => LET t == GetTicket(rows', last'.id) IN
             /\ last'.arg = "Closed" => (t.status = "Closed" /\ t.resolved_at # "")
             /\ last'.arg = "Open" => (t.status = "Open" /\ t.resolved_at = "")]_vars

\* a ticket just closed by update_status, with a request still to come (the
\* reopen that the formula then covers)
C6_Witness ==
    /\ last.op = "update_status" /\ last.ok /\ last.arg = "Closed"
    /\ GetTicket(rows, last.id).resolved_at # ""
    /\ steps < MaxSteps

C8_UnknownIdRejected ==
    [][(last'.op = "update_status" /\ ~HasTicket(rows, last'.id))
          => (~last'.ok /\ last'.writes = 0 /\ rows' = rows)]_vars

\* update_status with a valid status was answered for an id the non-empty sheet
\* does not hold
C8_Witness ==
    /\ last.op = "update_status" /\ last.arg \in {"Open", "Closed"}
    /\ ~HasTicket(rows, last.id)
    /\ rows # << >>
    /\ ~last.ok

\* C9: a successful update_status changes nothing but the status and resolved_at
\* of the addressed ticket: its other fields and every other row stay as they were.
C9_StatusUpdateFrame ==
    [][(last'.op = "update_status" /\ last'.ok)
          => /\ Len(rows') = Len(rows)
             /\ \A i \in 1..Len(rows) :
                   IF rows[i].ticket_id = last'.id
                   THEN [TicketOf(rows'[i]) EXCEPT !.status = "", !.resolved_at = ""]
                        = [TicketOf(rows[i]) EXCEPT !.status = "", !.resolved_at = ""]
                   ELSE rows'[i] = rows[i]]_vars

\* a status update that succeeded on a ticket whose priority and assignee had
\* been changed before
C9_Witness ==
    /\ last.op = "update_status" /\ last.ok
    /\ GetTicket(rows, last.id).priority = "HIGH"
    /\ \E i \in 1..Len(rows) : rows[i].ticket_id # last.id

\* C10: the id allocation at service start yields (largest numeric ticket id of
\* the sheet) + 1, and 1 when the sheet holds no numeric id.
ClaimedNextId(rs) ==
    LET nums == {ToInt(id) : id \in {x \in TicketIds(rs) : IsDigit(x)}} IN
    IF nums = {} THEN 1 ELSE SetMax(nums) + 1

C10_AllocationAtStart ==
    [][(service = "down" /\ service' # "down")
          => (service' = "up" /\ next_ticket_id' = ClaimedNextId(rows))]_vars

C12_FindAllLastRowWins ==
    LET tickets == GetTickets(rows) IN
    /\ \A i, j \in 1..Len(tickets) :
          i # j => tickets[i].ticket_id # tickets[j].ticket_id
    /\ {tickets[k].ticket_id : k \in 1..Len(tickets)} = TicketIds(rows)
    /\ \A k \in 1..Len(tickets) :
          tickets[k] = TicketOf(rows[LastRowOf(rows, tickets[k].ticket_id)])

\* two rows of one id that differ in requester and status, read by the request
\* just handled: the one ticket returned shows the later row
C12_Witness ==
    /\ Len(rows) = 2
    /\ rows[1].ticket_id = rows[2].ticket_id
    /\ rows[1].status = "Closed" /\ rows[2].status = "Open"
    /\ last.op = "update_priority"
    /\ Len(GetTickets(rows)) = 1
    /\ GetTickets(rows)[1].status = "Open"
    /\ GetTickets(rows)[1].requester_name = "@Bob"

\* C13: right after a successful create_ticket(description, creator, channel,
\* priority), get(id) returns status Open, an empty assignee, an empty
\* resolved_at, the given priority and the given channel, whatever the channel.
C13_CreatedTicketDefaults ==
    [][\A ch \in Channels :
          (CreateTicket("m1", "U1", ch, "Medium", TRUE) /\ last'.ok)
             => LET t == GetTicket(rows', last'.id) IN
                /\ t.status = "Open"
                /\ t.assignee = ""
                /\ t.resolved_at = ""
                /\ t.priority = "Medium"
                /\ t.channel_id = ch]_vars

\* C14: a successful update_ticket_from_modal (called directly or by the modal
\* submission handler) leaves the stored priority in upper case, one of
\* CRITICAL, HIGH, MEDIUM, LOW; with status Closed it leaves the ticket Closed
\* with a non-empty resolved_at.
C14_FormCanonicalPriority ==
    [][(last'.op \in {"update_from_modal", "modal_submission"} /\ last'.ok)
          => LET t == GetTicket(rows', last'.id) IN
             /\ t.priority \in {"CRITICAL", "HIGH", "MEDIUM", "LOW"}
             /\ (last'.op = "update_from_modal" /\ last'.arg = "Closed")
                   => (t.status = "Closed" /\ t.resolved_at # "")]_vars

\* C15: after a successful update_ticket_from_modal(id, requester, status,
\* assignee, priority, description, custom_fields = cf), get(id) shows the
\* submitted requester, status, assignee and description, and the stored
\* custom-fields object is exactly cf: a key stored before and not in cf is gone.
C15_FormReplacesCustomFields ==
    [][(last'.op = "update_from_modal" /\ last'.ok)
          => \A cf \in FormCustomFields \ {<< >>} :
                UpdateTicketFromModal(last'.id, "U2", last'.arg, "U2", "Critical", "m2", cf)
                   => LET t == GetTicket(rows', last'.id) IN
                      /\ t.requester_name = "U2"
                      /\ t.status = last'.arg
                      /\ t.assignee = "U2"
                      /\ t.message = "m2"
                      /\ rows'[LastRowOf(rows', last'.id)].custom = cf[1]
                      /\ t.env = cf[1]["env"]
                      /\ t.requester_id = cf[1]["requester_id"]]_vars

\* a modal update with custom_fields {env: prod} went through on a ticket: its
\* custom-fields object holds env and no other key
C15_Witness ==
    /\ last.op = "update_from_modal" /\ last.ok
    /\ steps = MaxSteps
    /\ LET r == rows[LastRowOf(rows, last.id)] IN
          /\ r.custom = [NoCustom EXCEPT !["env"] = "prod"]
          /\ r.requester = "U2" /\ r.message = "m2"

\* C16: update_ticket_priority(id, p) on an existing ticket succeeds when p is a
\* case variant of CRITICAL, HIGH, MEDIUM or LOW, and then stores the upper-case
\* form; for any other p it fails and leaves the sheet unchanged.
C16_PriorityCaseVariants ==
    [][(last'.op = "update_priority" /\ HasTicket(rows, last'.id))
          => IF Upper(last'.arg) \in {"CRITICAL", "HIGH", "MEDIUM", "LOW"}
             THEN last'.ok /\ GetTicket(rows', last'.id).priority = Upper(last'.arg)
             ELSE ~last'.ok /\ rows' = rows]_vars

\* C17: update_ticket_assignee(id, display_name, user_id) on an existing ticket
\* writes the display name; with a user_id (assign-to-me) it sets
\* custom_fields.assignee_id to it and keeps every other stored custom field,
\* without a user_id (TicketService.update_ticket_assignee) it leaves the custom
\* fields as they are; no other cell of the row and no other row changes.
C17_AssigneeMerge ==
    [][(last'.op \in {"update_assignee", "internal_assign_me"} /\ HasTicket(rows, last'.id))
          => LET i == LastRowOf(rows, last'.id)
                 with_user == last'.op = "internal_assign_me"
                 name == IF with_user THEN AtName(last'.user) ELSE last'.arg
             IN  /\ last'.ok
                 /\ Len(rows') = Len(rows)
                 /\ \A j \in 1..Len(rows) : j # i => rows'[j] = rows[j]
                 /\ rows'[i].assignee = name
                 /\ \A k \in CustomKeys :
                       rows'[i].custom[k] =
                          IF with_user /\ k = "assignee_id"
                          THEN last'.user
                          ELSE rows[i].custom[k]
                 /\ [rows'[i] EXCEPT !.assignee = "", !.custom = NoCustom]
                       = [rows[i] EXCEPT !.assignee = "", !.custom = NoCustom]]_vars

\* assign-to-me went through on a ticket that had the custom field env stored:
\* the field is still there next to the new assignee_id
C17_Witness ==
    /\ last.op = "internal_assign_me" /\ last.ok
    /\ LET r == rows[LastRowOf(rows, last.id)] IN
          /\ r.custom["env"] = "prod"
          /\ r.custom["assignee_id"] = last.user
          /\ r.assignee = AtName(last.user)

\* C18: once a ticket has a first response, a thread reply (handled one at a
\* time) does not change it, nor anything else in the sheet; a reply on a ticket
\* without one records it.
C18_FirstResponseOnce ==
    [][(last'.op = "thread_reply" /\ HasTicket(rows, last'.id))
          => IF GetTicket(rows, last'.id).first_response # << >>
             THEN rows' = rows /\ last'.writes = 0
             ELSE GetTicket(rows', last'.id).first_response # << >>]_vars

\* the second request of the run was a thread reply on a ticket whose first
\* response had been recorded by the first request
C18_Witness ==
    /\ last.op = "thread_reply"
    /\ steps = 2
    /\ HasTicket(rows, last.id)
    /\ GetTicket(rows, last.id).first_response # << >>
    /\ GetTicket(rows, last.id).first_response[1] = TimeStr[2]

\* C19: a click on a quick-action button (Close in the origin thread, Change
\* Status and Assign to Me on the internal card) by a user who is not an admin of
\* the ticket's channel leaves the sheet unchanged.
C19_QuickActionsAdminOnly ==
    [][(/\ last'.op \in {"close_ticket", "internal_change_status", "internal_assign_me"}
        /\ HasTicket(rows, last'.id)
        /\ last'.user \notin AdminIds(GetTicket(rows, last'.id).channel_id))
          => rows' = rows]_vars

\* C20: a modal submission by a user who is neither an admin of the ticket's
\* channel nor the ticket's creator changes nothing in the sheet and is answered
\* with an error keyed to the description field, or to the first field of the
\* template when the template has no description field.
C20_ModalPermissionError ==
    [][\A u \in UserIds, id \in RequestIds, sub \in ModalSubmissions :
          (/\ ModalSubmission(u, id, sub, TRUE, TRUE)
           /\ HasTicket(rows, id)
           /\ u \notin AdminIds(GetTicket(rows, id).channel_id)
           /\ u # GetTicket(rows, id).created_by)
             => LET fields == ModalTemplates[sub.template_key] IN
                /\ rows' = rows
                /\ last'.errors =
                      IF \E n \in 1..Len(fields) : fields[n] = "description"
                      THEN "description"
                      ELSE fields[1]]_vars

\* C21: when the ticket's creator, not an admin of its channel, submits the
\* modal form, the stored status of the ticket is the same after the submission
\* as before, whatever status the submission carries.
C21_CreatorCannotChangeStatus ==
    [][(/\ last'.op = "modal_submission"
        /\ HasTicket(rows, last'.id)
        /\ last'.user = GetTicket(rows, last'.id).created_by
        /\ last'.user \notin AdminIds(GetTicket(rows, last'.id).channel_id))
          => GetTicket(rows', last'.id).status = GetTicket(rows, last'.id).status]_vars

\* a submission carrying status Closed by a user who is not an admin of the
\* ticket's channel went through (so the user was the creator) and the ticket
\* is still Open, its other fields rewritten by the submission
C21_Witness ==
    /\ last.op = "modal_submission" /\ last.ok /\ last.arg = "Closed"
    /\ HasTicket(rows, last.id)
    /\ last.user \notin AdminIds(GetTicket(rows, last.id).channel_id)
    /\ GetTicket(rows, last.id).status = "Open"
    /\ GetTicket(rows, last.id).message = "m2"

\* C22: for the ticket a user has just created, is_creator is true of that
\* user's id and false of the requester display name stored with the ticket.
C22_IsCreatorByUserId ==
    [][(last'.op = "create" /\ last'.ok)
          => LET t == GetTicket(rows', last'.id) IN
             /\ IsCreator(last'.user, t)
             /\ ~IsCreator(t.requester_name, t)]_vars

\* C23: a user is an admin of a channel exactly when listed in the channel's own
\* comma-separated, trimmed admin list if the channel's Config row has a
\* non-empty one (C1: "U2 ," lists U2), and in the global list (U3) otherwise
\* (C2 has no row, C3 an empty cell); U3 is not an admin of C1.  Read off what
\* the admin decision alone determines: whether Close goes through, and whether
\* the ticket view opens as the fully editable form.
C23_ChannelAdminList ==
    [][(last'.config_ok /\ HasTicket(rows, last'.id))
          => LET expected(ch) == IF ch = "C1" THEN {"U2"} ELSE {"U3"}
                 t == GetTicket(rows, last'.id)
             IN  /\ last'.op \in {"close_ticket", "bolt_close_ticket"}
                      => (last'.ok <=> last'.user \in expected(last'.channel))
                 /\ last'.op \in {"view_edit_ticket", "bolt_view_edit_ticket"}
                      => (last'.fx.view = "edit" <=> last'.user \in expected(last'.channel))
                 /\ last'.op = "internal_view_edit"
                      => (last'.fx.view = "edit" <=> last'.user \in expected(t.channel_id))]_vars

C23_Witness ==
    /\ last.op = "close_ticket" /\ last.config_ok
    /\ last.user = "U3" /\ last.channel = "C1"
    /\ HasTicket(rows, last.id)
    /\ ~last.ok

C25_ViewByRole ==
    [][(/\ last'.op \in {"view_edit_ticket", "bolt_view_edit_ticket", "internal_view_edit"}
        /\ last'.config_ok
        /\ HasTicket(rows, last'.id))
          => LET t == GetTicket(rows, last'.id)
                 fx == last'.fx
                 is_admin == IF last'.op = "internal_view_edit"
                             THEN last'.user \in AdminIds(t.channel_id)
                             ELSE last'.user \in AdminIds(last'.channel)
                 is_creator == IsCreator(last'.user, t)
             IN  /\ is_admin
                      => /\ fx.view = "edit" /\ fx.submit
                         /\ "status" \in StateValues(fx.blocks)
                 /\ (is_creator /\ ~is_admin)
                      => /\ fx.view = "edit_locked" /\ fx.submit
                         /\ "status" \notin StateValues(fx.blocks)
                         /\ StateValues(fx.blocks) # {}
                 /\ (~is_creator /\ ~is_admin)
                      => /\ fx.view = "view_only" /\ ~fx.submit
                         /\ StateValues(fx.blocks) = {}]_vars


\* C26: the form rendered with lock_status (for a creator who is not an admin)
\* has no input block for status and the values parsed back from a submission
\* of that form have no status key; the form rendered without it (for an admin)
\* has the status input, and its submission parses back with a status key.
C26_LockedStatusNotParsedBack ==
    LET fields == ModalTemplates["tech_default"]
        blocks == last.fx.blocks
        status_input == \E i \in 1..Len(blocks) :
                           blocks[i].type = "input" /\ blocks[i].block_id = "status"
        parsed == ExtractModalValues(StateValues(blocks), fields)
    IN  /\ last.fx.view = "edit_locked" => (~status_input /\ "status" \notin parsed)
        /\ last.fx.view = "edit" => (status_input /\ "status" \in parsed)

C26_Witness ==
    /\ last.op = "view_edit_ticket"
    /\ last.fx.view = "edit_locked"
    /\ Len(last.fx.blocks) = Len(ModalTemplates["tech_default"])
    /\ ExtractModalValues(StateValues(last.fx.blocks), ModalTemplates["tech_default"])
          = {"requester", "assignee", "priority", "description", "env"}


\* C27: after every successful close, reopen, assign or form submission of a
\* ticket that carries an internal card reference (requested from the ticket's
\* own thread or card, the Config tab readable), the handler issues one
\* chat_update of that card, in the internal channel and at the card's ts,
\* rendered from the ticket as stored after the mutation, and posts no new card.
C27_CardUpdatedInPlace ==
    [][(/\ last'.op \in {"close_ticket", "bolt_close_ticket", "internal_change_status",
                         "internal_assign_me", "modal_submission", "bolt_modal_submission"}
        /\ last'.ok
        /\ last'.config_ok
        /\ HasTicket(rows', last'.id)
        /\ last'.channel \in {GetTicket(rows', last'.id).channel_id, "CI"}
        /\ GetTicket(rows', last'.id).internal_message_ts # "")
          => LET t == GetTicket(rows', last'.id) IN
             /\ last'.fx.card = << [channel |-> "CI", ts |-> t.internal_message_ts,
                                    ticket |-> t] >>
             /\ last'.fx.card_posts = 0]_vars


\* C28: when the Slack calls that follow a successful store mutation fail (the
\* card update, the thread notification), the handler still answers with
\* success and the sheet keeps the mutated values: the ticket is Closed with its
\* resolved_at after Close, toggled after the card's status button, assigned to
\* the clicking user after Assign to Me, and carries the submitted description
\* after the form.
C28_SlackFailureSwallowed ==
    [][(~last'.slack_ok /\ HasTicket(rows, last'.id))
          => LET t == GetTicket(rows, last'.id)
                 t2 == GetTicket(rows', last'.id)
             IN  /\ (/\ last'.op \in {"close_ticket", "bolt_close_ticket"}
                     /\ last'.user \in AdminIds(last'.channel))
                      => /\ last'.ok
                         /\ t2.status = "Closed" /\ t2.resolved_at # ""
                 /\ last'.op = "internal_change_status"
                      => /\ last'.ok
                         /\ t2.status = (IF t.status = "Open" THEN "Closed" ELSE "Open")
                 /\ last'.op = "internal_assign_me"
                      => /\ last'.ok
                         /\ t2.assignee = AtName(last'.user)
                 /\ (/\ last'.op = "modal_submission"
                     /\ last'.user \in AdminIds(t.channel_id))
                      => /\ last'.ok
                         /\ t2.message = "m2"]_vars

C28_Witness ==
    /\ last.op = "close_ticket" /\ ~last.slack_ok /\ last.ok
    /\ last.id = "3"
    /\ last.fx.card # << >> /\ last.fx.origin_notes = 1
    /\ HasTicket(rows, "3")
    /\ GetTicket(rows, "3").status = "Closed"
    /\ GetTicket(store0, "3").status = "Open"


\* C29: each successful close, reopen and assign posts exactly one notification
\* to the ticket's origin thread, and one more to the card's reply thread when
\* it was requested from the card of a ticket that has one (none there
\* otherwise); a successful form submission posts nothing to the origin thread
\* (Config tab readable, Slack calls going through).
C29_NotificationsPerAction ==
    [][(last'.ok /\ last'.slack_ok /\ last'.config_ok /\ HasTicket(rows', last'.id))
          => LET t == GetTicket(rows', last'.id)
                 fx == last'.fx
             IN  /\ last'.op \in {"close_ticket", "bolt_close_ticket"}
                      => (fx.origin_notes = 1 /\ fx.card_notes = 0)
                 /\ last'.op \in {"internal_change_status", "internal_assign_me"}
                      => /\ fx.origin_notes = 1
                         /\ fx.card_notes = (IF t.internal_message_ts # "" THEN 1 ELSE 0)
                 /\ last'.op \in {"modal_submission", "bolt_modal_submission"}
                      => fx.origin_notes = 0]_vars


\* C30: a message event makes the service create exactly one ticket when it is
\* a top-level message with a user and a text, not of a bot and without
\* subtype, in a channel that is neither a DM (D...), a group DM (G...) nor the
\* internal channel CI; every other message event creates no ticket and adds no
\* ticket to the sheet.
C30_OneTicketPerTopLevelMessage ==
    [][(last'.op \in {"message_ignored", "message_internal_reply",
                      "message_create", "message_reply"})
          => LET ev == last'.event
                 eligible == /\ ~ev.bot /\ ev.subtype = ""
                             /\ ev.thread = "" /\ ev.user # "" /\ ev.text # ""
                             /\ ev.channel \notin {"D1", "G1", "CI"}
             IN  IF eligible
                 THEN Len(allocated') = Len(allocated) + 1
                 ELSE /\ allocated' = allocated
                      /\ TicketIds(rows') = TicketIds(rows)]_vars

\* the columns of call c whose write went through
Written(c) == {c.plan[k] : k \in 1..c.wrote}

\* C31: when a single-field write of update_status or of update_from_form
\* fails, the call returns failure at once: the sheet keeps the writes that went
\* through before it, no later write of the plan is attempted (a call that has
\* returned makes no further store call), so the writes applied are a proper
\* prefix of the plan.
C31_PartialUpdateFailsFast ==
    [][\A t \in Threads :
          /\ (/\ calls[t].op \in {"update_status", "modal_submission"}
              /\ calls[t].pc = "write"
              /\ ~calls[t].fault /\ calls'[t].fault)
                => /\ calls'[t].pc = "done" /\ ~calls'[t].ok
                   /\ rows' = rows
                   /\ calls'[t].wrote = calls[t].wrote
                   /\ calls'[t].wrote < Len(calls'[t].plan)
          /\ calls[t].pc = "done" => calls'[t] = calls[t]]_vars

\* update_status(3, Closed), the only call of the run, failed in its second
\* write: the ticket is Closed and its resolved_at is still the old, empty one
C31_Witness ==
    /\ steps = 1
    /\ calls[1].op = "update_status" /\ calls[1].arg = "Closed"
    /\ calls[1].pc = "done" /\ calls[1].fault /\ ~calls[1].ok
    /\ calls[1].wrote = 1
    /\ GetTicket(store0, "3").status = "Open"
    /\ GetTicket(rows, "3").status = "Closed"
    /\ GetTicket(rows, "3").resolved_at = ""

\* the calls that have arrived
Arrived == {t \in Threads : calls[t].pc # "idle"}

\* C32: when all the calls of a run have returned, none failed in a store call,
\* each located its row and fixed the columns it writes, and these columns are
\* pairwise disjoint (update_status with
\* update_assignee, update_priority with a first response, ...), every one of
\* them returned success and the sheet is the initial one with, in the
\* addressed row, each written column holding the value of the call that
\* writes it: every effect is there and nothing else has changed, whatever the
\* interleaving of the reads and writes was.
C32_DisjointUpdatesBothApplied ==
    (/\ Cardinality(Arrived) >= 2
     /\ \A t \in Arrived : calls[t].pc = "done" /\ ~calls[t].fault /\ calls[t].plan # << >>
     /\ \A t, u \in Arrived :
           t # u => {calls[t].plan[k] : k \in 1..Len(calls[t].plan)}
                       \cap {calls[u].plan[k] : k \in 1..Len(calls[u].plan)} = {})
      => /\ \A t \in Arrived : calls[t].ok
         /\ Len(rows) = Len(store0)
         /\ \A i \in 1..Len(rows) :
               \A column \in DOMAIN rows[i] :
                  IF \E t \in Arrived : calls[t].row_index = i /\ column \in Written(calls[t])
                  THEN \E t \in Arrived : /\ calls[t].row_index = i
                                          /\ column \in Written(calls[t])
                                          /\ rows[i][column] = calls[t].cells[column]
                  ELSE rows[i][column] = store0[i][column]

\* Close and an assignment by name overlapped (Close located its row after the
\* assignment had arrived, as the time it stamped shows) and both have returned:
\* the ticket is Closed with that resolved_at and assigned to Carol
C32_Witness ==
    /\ calls[1].op = "update_status" /\ calls[1].arg = "Closed"
    /\ calls[2].op = "update_assignee"
    /\ \A t \in {1, 2} : calls[t].pc = "done" /\ calls[t].ok
    /\ calls[1].cells.resolved_at = TimeStr[4]
    /\ GetTicket(rows, "3").status = "Closed"
    /\ GetTicket(rows, "3").resolved_at = TimeStr[4]
    /\ GetTicket(rows, "3").assignee = "@Carol"
    /\ GetTicket(store0, "3").assignee = "@Bob"

\* C33: the write of a thread reply that passed the empty-first_response check
\* stores its own response whatever the cell holds by then (of two replies that
\* both passed the check the later write wins) and changes nothing else; a
\* first response once stored is never emptied.
C33_FirstResponseLastWriteWins ==
    [][/\ \A t \in Threads :
             (/\ calls[t].op = "thread_reply"
              /\ calls[t].pc = "write" /\ calls'[t].wrote = calls[t].wrote + 1)
                => rows' = [rows EXCEPT ![calls[t].row_index].first_response =
                                           calls[t].cells.first_response]
       /\ \A i \in 1..Len(rows) :
             rows[i].first_response # << >> => rows'[i].first_response # << >>]_vars

\* two replies on ticket 3 both passed the check and both wrote: the cell holds
\* the response of U3, written over the response of U2 that had been stored
C33_Witness ==
    /\ \A t \in {1, 2} : calls[t].op = "thread_reply" /\ calls[t].wrote = 1
    /\ calls[1].user # calls[2].user
    /\ \E t \in {1, 2} :
          /\ calls[t].user = "U2" /\ calls[t].pc = "done" /\ ~calls[t].ok
    /\ rows[1].first_response[2] = "U3"
    /\ GetTicket(store0, "3").first_response = << >>

\* C34: two instances built on the same sheet (their reads going through) hold
\* the same next id, and the k-th create of each is given the same ticket_id;
\* the duplicate check of a create that runs after the other's append finds the
\* id and the create returns failure without a write, but a create whose check
\* ran before the other's append appends its row whatever the sheet holds by
\* then, a second physical row of the id included.
C34_InstancesAllocateSameId ==
    /\ [](/\ \A i \in Instances :
                (instances[i].next_ticket_id # 0 /\ ~instances[i].fault)
                   => instances[i].next_ticket_id
                         = GetNextTicketId(store0)
                              + Cardinality({t \in Arrived : calls[t].instance = i})
          /\ \A t \in Arrived :
                ~instances[calls[t].instance].fault
                   => ToInt(calls[t].id)
                         = GetNextTicketId(store0)
                              + Cardinality({u \in Arrived :
                                               u < t /\ calls[u].instance = calls[t].instance}))
    /\ [][\A t \in Threads :
             /\ (calls[t].pc = "dup_check" /\ calls'[t].pc # "dup_check" /\ ~calls'[t].fault)
                   => /\ rows' = rows
                      /\ IF HasTicket(rows, calls[t].id)
                         THEN calls'[t].pc = "done" /\ ~calls'[t].ok /\ calls'[t].wrote = 0
                         ELSE calls'[t].pc = "append"
             /\ (calls[t].pc = "append" /\ calls'[t].pc = "done" /\ ~calls'[t].fault)
                   => /\ calls'[t].ok /\ calls'[t].wrote = 1
                      /\ rows' = Append(rows, calls[t].cells)
                      /\ rows'[Len(rows')].ticket_id = calls[t].id]_vars

\* both instances were built on the deployment's sheet and each served one
\* message; both checks ran before either append: two rows of ticket 8
C34_Witness ==
    /\ instances[1] = instances[2]
    /\ ~instances[1].fault
    /\ allocated = <<"8", "8">>
    /\ calls[1].instance # calls[2].instance
    /\ \A t \in {1, 2} : calls[t].pc = "done" /\ calls[t].ok /\ ~calls[t].fault
    /\ Cardinality(RowsOf(rows, "8")) = 2
    /\ RowsOf(store0, "8") = {}

\* C38: get_tickets answers a failed read with no tickets: the duplicate check
\* of append_ticket then goes on to the append although the sheet holds the id,
\* and the append adds a second physical row of it; an instance built while the
\* read fails starts its counter at 1 although the sheet holds tickets.
C38_FailedReadLooksEmpty ==
    [][/\ \A t \in Threads :
             (calls[t].pc = "dup_check" /\ ~calls[t].fault /\ calls'[t].fault)
                => /\ calls'[t].pc = "append"
                   /\ rows' = rows
       /\ \A t \in Threads :
             (calls[t].pc = "append" /\ calls[t].fault /\ calls'[t].ok)
                => /\ Len(rows') = Len(rows) + 1
                   /\ rows'[Len(rows')].ticket_id = calls[t].id
                   /\ RowsOf(rows', calls[t].id) = RowsOf(rows, calls[t].id) \cup {Len(rows')}
       /\ \A i \in Instances :
             (instances[i].next_ticket_id = 0 /\ instances'[i].fault)
                => instances'[i].next_ticket_id = 1]_vars

\* an instance built on the sheet that holds ticket 1 while the read failed
\* was given the counter 1; its create of ticket 1 ran the duplicate check
\* while the read failed and appended a second row of ticket 1
C38_Witness ==
    /\ store0 = << SeedRow("1", "C1") >>
    /\ \E t \in Threads :
          /\ calls[t].op = "create" /\ calls[t].id = "1"
          /\ calls[t].pc = "done" /\ calls[t].ok /\ calls[t].fault
          /\ instances[calls[t].instance].fault
    /\ RowsOf(rows, "1") = {1, 2}

\* C36: the status a creator's form submission writes is the status of the
\* ticket as the handler read it at the start: it is held unchanged through
\* the calls that follow and stored over whatever the status cell holds when
\* the write lands, the resolved_at cell left as it is; a Close by an admin
\* that landed in between is overwritten.
C36_CreatorSubmissionWritesStaleStatus ==
    [][\A t \in Threads :
          calls[t].op = "modal_submission"
             => /\ (/\ calls[t].pc = "handler_get" /\ calls'[t].pc = "get_ticket"
                    /\ calls[t].user \notin AdminIds(GetTicket(rows, calls[t].id).channel_id))
                      => calls'[t].cells.status = GetTicket(rows, calls[t].id).status
                /\ calls[t].pc \in {"get_ticket", "find_row", "write"}
                      => calls'[t].cells.status = calls[t].cells.status
                /\ (/\ calls[t].pc = "write" /\ calls'[t].wrote = calls[t].wrote + 1
                    /\ calls[t].plan[calls[t].wrote + 1] = "status")
                      => /\ rows'[calls[t].row_index].status = calls[t].cells.status
                         /\ rows'[calls[t].row_index].resolved_at
                               = rows[calls[t].row_index].resolved_at]_vars

\* the creator's form was read while ticket 3 was Open, the admin's Close wrote
\* both its cells, and the creator's status write landed after it: the ticket
\* is Open with the resolved_at of the Close
C36_Witness ==
    \E t, u \in Threads :
       /\ calls[t].op = "modal_submission" /\ calls[t].user = "U1"
       /\ calls[t].pc = "done" /\ calls[t].ok
       /\ calls[u].op = "update_status" /\ calls[u].arg = "Closed" /\ calls[u].wrote = 2
       /\ store0[1].status = "Open" /\ store0[1].resolved_at = ""
       /\ rows[1].status = "Open"
       /\ rows[1].resolved_at = calls[u].cells.resolved_at
       /\ rows[1].resolved_at # ""
       /\ NoFault

\* C37: the custom-fields cell has two writers that do not coordinate: Assign
\* to Me stores the cell as it read it when it located the row, with its own
\* assignee_id put in, and a form submission stores the fields of the form in
\* place of the whole cell; each stores its value over whatever the cell holds
\* by then and leaves the assignee display cell as it is.
C37_CustomFieldsTwoWriters ==
    [][\A t \in Threads :
          /\ (calls[t].op = "assign_me" /\ calls[t].pc = "find_row" /\ calls'[t].pc = "write")
                => calls'[t].cells.custom
                      = [rows[FindRow(rows, calls[t].id)].custom
                            EXCEPT !["assignee_id"] = calls[t].user]
          /\ (/\ calls[t].op = "modal_submission"
              /\ calls[t].pc = "handler_get" /\ calls'[t].pc = "get_ticket")
                => calls'[t].cells.custom
                      = [k \in CustomKeys |->
                            CASE k = "requester_id" -> calls[t].sub.requester
                              [] k = "assignee_id" -> calls[t].sub.assignee
                              [] OTHER -> calls[t].sub.env]
          /\ (\/ calls[t].pc = "write"
              \/ calls[t].op = "modal_submission" /\ calls[t].pc \in {"get_ticket", "find_row"})
                => calls'[t].cells.custom = calls[t].cells.custom
          /\ (/\ calls[t].pc = "write" /\ calls'[t].wrote = calls[t].wrote + 1
              /\ calls[t].plan[calls[t].wrote + 1] = "custom")
                => /\ rows'[calls[t].row_index].custom = calls[t].cells.custom
                   /\ rows'[calls[t].row_index].assignee
                         = rows[calls[t].row_index].assignee]_vars

\* Assign to Me by U3 located the row before the creator's form wrote the
\* cell and wrote it after: the env of the form is lost and the cell names U3
\* the assignee, while the assignee display cell is the form's @Bob
C37_Witness ==
    \E t, u \in Threads :
       /\ calls[t].op = "modal_submission" /\ calls[t].pc = "done" /\ calls[t].ok
       /\ calls[t].cells.custom["env"] = "staging"
       /\ calls[u].op = "assign_me" /\ calls[u].user = "U3" /\ calls[u].wrote = 2
       /\ rows[1].custom["env"] = store0[1].custom["env"]
       /\ rows[1].custom["env"] # "staging"
       /\ rows[1].custom["assignee_id"] = "U3"
       /\ rows[1].assignee = AtName("U2")
       /\ NoFault

\* C39: the created_at of a ticket never changes after creation: every step
\* that is not a create or an append leaves the created_at of every row as it
\* was.
C39_CreatedAtNeverChanges ==
    [][last'.op \notin {"create", "append"}
          => \A i \in 1..Len(rows) :
                /\ i <= Len(rows')
                /\ rows'[i].ticket_id = rows[i].ticket_id
                /\ rows'[i].created_at = rows[i].created_at]_vars

\* C35: right after a ticket is created from a message of user U, get(id) gives
\* created_by = U, the view handler opens for U the creator's form (editable,
\* status locked, with a submit control) and a form submission of U is
\* accepted and written.
C35_CreatorRecognizedAfterCreation ==
    [][(last'.op = "message_create" /\ last'.ok)
          => LET u == last'.user
                 t == GetTicket(rows', last'.id)
                 view == ViewEditTicketFx(ConfigMap, rows', u, t.channel_id, last'.id)
             IN  /\ t.created_by = u
                 /\ u \notin AdminIds(t.channel_id)
                       => /\ view.view = "edit_locked" /\ view.submit
                          /\ ModalSubmissionErrors(ConfigMap, rows', u, last'.id, CreatorForm) = ""
                          /\ ModalSubmissionResult(ConfigMap, rows', u, last'.id,
                                                   CreatorForm, Now).ok]_vars

\* C40: the handler of a top-level message posts the "Ticket #<id> has been
\* created" confirmation only for a ticket that was stored: a confirmation
\* posted names the id of a row of the sheet, and when create_ticket returned
\* no id neither a confirmation nor an internal card is posted.
C40_ConfirmationOnlyWhenPersisted ==
    [][last'.op = "message_create"
          => /\ last'.fx.confirmations > 0
                   => last'.ok /\ HasTicket(rows', last'.fx.confirmed_id)
             /\ ~last'.ok
                   => last'.fx.confirmations = 0 /\ last'.fx.card_posts = 0]_vars


====
